---- MODULE Spec2Model ----
(***************************************************************************)
(* A model of the i1 threat-intelligence plane (crates/i1-srv): the        *)
(* reversed-IPv4 DNSBL codec, the hybrid TXT reputation codec, the zone    *)
(* builder and the DNS authority runtime.                                  *)
(*                                                                         *)
(* Strings are sequences of one-character strings, so that parsing,        *)
(* splitting and prefix tests are computed character by character, the     *)
(* way the Rust code computes them.                                        *)
(***************************************************************************)
EXTENDS Integers, Sequences, FiniteSets, TLC

VARIABLES
    \* ---- reversed-IPv4 codec (encoding/dnsbl.rs)
    dn_ip,        \* the ip argument of build_query_name
    dn_zone,      \* the zone argument of build_query_name / parse_query_name
    dn_query,     \* a query name handed to parse_query_name as received
    dn_name,      \* the Result of build_query_name(dn_ip, dn_zone)
    dn_back,      \* the Result of the last parse_query_name
    dn_src,       \* what dn_back parsed: "none" | "built" | "query"
    \* ---- hybrid TXT codec (encoding/txt_intel.rs)
    tx_data,      \* the ReputationData handed to encode
    tx_txt,       \* the Result of encode(tx_data)
    tx_wire,      \* a TXT string handed to decode as received
    tx_out,       \* the Result of the last decode
    tx_src,       \* what tx_out decoded: "none" | "encoded" | "wire"
    \* ---- zone builder (authority/zone_builder.rs)
    zb_snapshot,  \* the DefenseSnapshot handed to build_zones
    zb_zones,     \* the ZoneConfig handed to build_zones
    zb_serial,    \* the serial handed to build_zones
    zb_now,       \* Utc::now() while build_zones runs
    zb_built,     \* the Result of build_zones
    \* ---- DNS authority runtime (server.rs, sync/collector.rs)
    sv_clock,     \* Utc::now(): a position in SvTimes
    sv_file,      \* the defense state file on disk
    sv_phase,     \* "starting" | "serving" | "failed"
    sv_catalog,   \* the catalog in service: origin -> authority
    sv_signal,    \* the SignalData of the catalog in service
    sv_last,      \* how the last reload ended: "none" | "ok" | an error kind
    sv_serials,   \* the serials published so far, oldest first
    sv_attempts,  \* the reloads of the current UTC day
    sv_reply,     \* the last query answered and its response
    \* ---- signal record codec (encoding/signal.rs)
    sg_data,      \* the SignalData handed to to_txt
    sg_txt,       \* the text to_txt returned, <<>> before it ran
    sg_wire,      \* a TXT string handed to from_txt as received
    sg_out,       \* the Result of the last from_txt
    sg_src,       \* what sg_out parsed: "none" | "encoded" | "wire"
    \* ---- trust digest and verification token (i1-audit verify.rs)
    au_snapshot,  \* the AuditSnapshot collect_snapshot returned last
    au_scans,     \* the scans so far, each a snapshot with its trust digest
    au_token,     \* the VerifyToken generated, if any
    \* ---- verdict of an observed signal record (i1-audit verify.rs)
    vf_expected,  \* the expected TXT value and TTL of a token
    vf_result,    \* the VerifyResult of the last observation, if any
    \* ---- state file loader (sync/collector.rs)
    ld_file,      \* the state file load_snapshot is given
    ld_out,       \* what load_snapshot returned
    \* ---- consensus query (i1-audit consensus/query.rs)
    cq_kind,      \* "binary" or "cert": which consensus is asked
    cq_hash,      \* the sha256 or fingerprint asked about
    cq_lookup,    \* what the resolver answers to the TXT lookup
    cq_name,      \* the DNS name looked up
    cq_out,       \* what the query returned
    \* ---- DNSBL records by code (authority/threat_authority.rs)
    rc_authority, \* the blocklist zone records are inserted into
    rc_inserts,   \* the (ip, code) of each insert_dnsbl_record so far
    \* ---- trust scores (i1-audit/src/types/trust.rs, scoring/cert_trust.rs)
    sc_factors,   \* the five factor values handed to TrustScore::compute
    sc_weights,   \* the weights handed to it
    sc_score,     \* NotRun, or Ok(the TrustScore returned)
    sc_cert,      \* NotRun, or Ok([cert, trust]): a certificate and its CertTrust
    \* ---- one audit scan (i1-audit/src/lib.rs)
    cs_found,     \* what discovery finds: [processes, binaries, root_certs, owned]
    cs_weights,   \* the weights handed to collect_snapshot
    cs_pc,        \* the position of collect_snapshot
    cs_processes, \* its local processes
    cs_binaries,  \* its local binaries
    cs_root_certs,\* its local root_certs
    cs_out,       \* NotRun, or the Result returned
    \* ---- anomalies (i1-audit/src/consensus/compare.rs)
    an_call,      \* the comparison called: [fn, items]
    an_out,       \* NotRun, or Ok(the anomalies returned)
    \* ---- audit TXT values (i1-audit/src/encoding/txt_audit.rs)
    eb_binary,    \* the BinaryInfo handed to encode_binary_txt
    eb_nodes,     \* the node count handed to it
    eb_out        \* NotRun, or the Result returned

dn_vars == <<dn_ip, dn_zone, dn_query, dn_name, dn_back, dn_src>>
tx_vars == <<tx_data, tx_txt, tx_wire, tx_out, tx_src>>

zb_vars == <<zb_snapshot, zb_zones, zb_serial, zb_now, zb_built>>

sv_vars ==
    <<sv_clock, sv_file, sv_phase, sv_catalog, sv_signal, sv_last, sv_serials,
      sv_attempts, sv_reply>>

sg_vars == <<sg_data, sg_txt, sg_wire, sg_out, sg_src>>

au_vars == <<au_snapshot, au_scans, au_token>>

vf_vars == <<vf_expected, vf_result>>

ld_vars == <<ld_file, ld_out>>

cq_vars == <<cq_kind, cq_hash, cq_lookup, cq_name, cq_out>>

rc_vars == <<rc_authority, rc_inserts>>

sc_vars == <<sc_factors, sc_weights, sc_score, sc_cert>>

cs_vars == <<cs_found, cs_weights, cs_pc, cs_processes, cs_binaries, cs_root_certs, cs_out>>

an_vars == <<an_call, an_out>>

eb_vars == <<eb_binary, eb_nodes, eb_out>>

vars == 
    <<dn_vars, tx_vars, zb_vars, sv_vars, sg_vars, au_vars, vf_vars, ld_vars, cq_vars, rc_vars, sc_vars, cs_vars, an_vars, eb_vars>>

\* What the operations of one component leave alone: the other components.
dn_others == 
    <<tx_vars, zb_vars, sv_vars, sg_vars, au_vars, vf_vars, ld_vars, cq_vars, rc_vars, sc_vars, cs_vars, an_vars, eb_vars>>
tx_others == 
    <<dn_vars, zb_vars, sv_vars, sg_vars, au_vars, vf_vars, ld_vars, cq_vars, rc_vars, sc_vars, cs_vars, an_vars, eb_vars>>
zb_others == 
    <<dn_vars, tx_vars, sv_vars, sg_vars, au_vars, vf_vars, ld_vars, cq_vars, rc_vars, sc_vars, cs_vars, an_vars, eb_vars>>
sv_others == 
    <<dn_vars, tx_vars, zb_vars, sg_vars, au_vars, vf_vars, ld_vars, cq_vars, rc_vars, sc_vars, cs_vars, an_vars, eb_vars>>
sg_others == 
    <<dn_vars, tx_vars, zb_vars, sv_vars, au_vars, vf_vars, ld_vars, cq_vars, rc_vars, sc_vars, cs_vars, an_vars, eb_vars>>
au_others == 
    <<dn_vars, tx_vars, zb_vars, sv_vars, sg_vars, vf_vars, ld_vars, cq_vars, rc_vars, sc_vars, cs_vars, an_vars, eb_vars>>
vf_others == 
    <<dn_vars, tx_vars, zb_vars, sv_vars, sg_vars, au_vars, ld_vars, cq_vars, rc_vars, sc_vars, cs_vars, an_vars, eb_vars>>
ld_others == 
    <<dn_vars, tx_vars, zb_vars, sv_vars, sg_vars, au_vars, vf_vars, cq_vars, rc_vars, sc_vars, cs_vars, an_vars, eb_vars>>
cq_others == 
    <<dn_vars, tx_vars, zb_vars, sv_vars, sg_vars, au_vars, vf_vars, ld_vars, rc_vars, sc_vars, cs_vars, an_vars, eb_vars>>
rc_others == 
    <<dn_vars, tx_vars, zb_vars, sv_vars, sg_vars, au_vars, vf_vars, ld_vars, cq_vars, sc_vars, cs_vars, an_vars, eb_vars>>
sc_others == 
    <<dn_vars, tx_vars, zb_vars, sv_vars, sg_vars, au_vars, vf_vars, ld_vars, cq_vars, rc_vars, cs_vars, an_vars, eb_vars>>
cs_others == 
    <<dn_vars, tx_vars, zb_vars, sv_vars, sg_vars, au_vars, vf_vars, ld_vars, cq_vars, rc_vars, sc_vars, an_vars, eb_vars>>
an_others == 
    <<dn_vars, tx_vars, zb_vars, sv_vars, sg_vars, au_vars, vf_vars, ld_vars, cq_vars, rc_vars, sc_vars, cs_vars, eb_vars>>
eb_others == 
    <<dn_vars, tx_vars, zb_vars, sv_vars, sg_vars, au_vars, vf_vars, ld_vars, cq_vars, rc_vars, sc_vars, cs_vars, an_vars>>

(***************************************************************************)
(* Results and strings                                                     *)
(***************************************************************************)
\* crate::Result<T>: Ok(value) or Err(kind), kind one of the SrvError variants.
Ok(v) == [ok |-> TRUE, val |-> v, err |-> "none"]
Err(kind) == [ok |-> FALSE, val |-> <<>>, err |-> kind]
\* A Result that no call has produced yet.
NotRun == [ok |-> FALSE, val |-> <<>>, err |-> "not-run"]

Digits == <<"0", "1", "2", "3", "4", "5", "6", "7", "8", "9">>
IsDigit(c) == \E i \in 1..10 : Digits[i] = c
DigitVal(c) == (CHOOSE i \in 1..10 : Digits[i] = c) - 1

\* Display of an unsigned integer ({} in format!): decimal, no leading zeros.
RECURSIVE FormatDec(_)
FormatDec(n) ==
    IF n < 10 THEN <<Digits[n + 1]>>
    ELSE FormatDec(n \div 10) \o <<Digits[(n % 10) + 1]>>

\* The value of a string of decimal digits.
RECURSIVE DecValue(_)
DecValue(s) ==
    IF s = <<>> THEN 0
    ELSE 10 * DecValue(SubSeq(s, 1, Len(s) - 1)) + DigitVal(s[Len(s)])

AllDigits(s) == \A i \in 1..Len(s) : IsDigit(s[i])

\* str::split(sep): the segments between the occurrences of the character sep;
\* a string without sep (the empty string too) is one segment.
Split(s, sep) ==
    LET at == {i \in 1..Len(s) : s[i] = sep}
        n == Cardinality(at)
        \* the position of the k-th separator; 0 and Len(s) + 1 close the ends
        cut(k) ==
            IF k = 0 THEN 0
            ELSE IF k = n + 1 THEN Len(s) + 1
            ELSE CHOOSE i \in at : Cardinality({j \in at : j < i}) = k - 1
    IN  [k \in 1..(n + 1) |-> SubSeq(s, cut(k - 1) + 1, cut(k) - 1)]

\* [String]::join(sep)
RECURSIVE Join(_, _)
Join(parts, sep) ==
    IF parts = <<>> THEN <<>>
    ELSE IF Len(parts) = 1 THEN parts[1]
    ELSE parts[1] \o sep \o Join(Tail(parts), sep)

\* str::contains(char)
Contains(s, c) == \E i \in 1..Len(s) : s[i] = c

\* The character c, n times.
Repeat(c, n) == [i \in 1..n |-> c]

\* str::starts_with / str::ends_with
StartsWith(s, p) ==
    /\ Len(p) <= Len(s)
    /\ \A i \in 1..Len(p) : s[i] = p[i]

EndsWith(s, p) ==
    /\ Len(p) <= Len(s)
    /\ \A i \in 1..Len(p) : s[Len(s) - Len(p) + i] = p[i]

\* str::strip_prefix / str::strip_suffix: Option<&str>, None as [some |-> FALSE].
Some(v) == [some |-> TRUE, val |-> v]
None == [some |-> FALSE, val |-> <<>>]
\* None of an Option of a number.
NoneNum == [some |-> FALSE, val |-> 0]
\* None of an Option of a bool.
NoneBool == [some |-> FALSE, val |-> FALSE]

strip_prefix(s, p) ==
    IF StartsWith(s, p) THEN Some(SubSeq(s, Len(p) + 1, Len(s))) ELSE None

strip_suffix(s, p) ==
    IF EndsWith(s, p) THEN Some(SubSeq(s, 1, Len(s) - Len(p))) ELSE None

\* The elements of a sequence in reverse order.
Reverse(s) == [i \in 1..Len(s) |-> s[Len(s) + 1 - i]]

(***************************************************************************)
(* std::net::Ipv4Addr                                                      *)
(***************************************************************************)
\* One octet as Ipv4Addr::from_str reads it: one to three decimal digits, no
\* leading zero on a number of more than one digit, value at most 255.
IsOctetText(s) ==
    /\ Len(s) \in 1..3
    /\ AllDigits(s)
    /\ (Len(s) > 1 => s[1] # "0")
    /\ DecValue(s) <= 255

\* str::parse::<Ipv4Addr>(): four octets separated by '.', nothing else.
ParseIpv4(s) ==
    LET of(parts) ==
            IF Len(parts) = 4 /\ \A i \in 1..4 : IsOctetText(parts[i])
            THEN Ok([i \in 1..4 |-> DecValue(parts[i])])
            ELSE Err("AddrParse")
    IN  of(Split(s, "."))

(***************************************************************************)
(* encoding/dnsbl.rs                                                       *)
(***************************************************************************)
\* reverse_ipv4 that leaves the octets in their order.
reverse_ipv4_unreversed(ip) ==
    FormatDec(ip[1]) \o <<".">> \o FormatDec(ip[2]) \o <<".">>
        \o FormatDec(ip[3]) \o <<".">> \o FormatDec(ip[4])

reverse_ipv4(ip) ==
    FormatDec(ip[4]) \o <<".">> \o FormatDec(ip[3]) \o <<".">>
        \o FormatDec(ip[2]) \o <<".">> \o FormatDec(ip[1])

build_query_name(ip, zone) ==
    LET addr == ParseIpv4(ip)
    IN  IF ~addr.ok THEN Err("Encoding")
        ELSE Ok(reverse_ipv4(addr.val) \o <<".">> \o zone)

parse_query_name(query, zone) ==
    LET under == strip_suffix(query, zone)
        prefix == IF under.some THEN strip_suffix(under.val, <<".">>) ELSE None
        octets == Split(prefix.val, ".")
    IN  IF ~prefix.some THEN Err("Encoding")
        ELSE IF Len(octets) # 4 THEN Err("Encoding")
        ELSE Ok(octets[4] \o <<".">> \o octets[3] \o <<".">>
                    \o octets[2] \o <<".">> \o octets[1])

(***************************************************************************)
(* Unsigned integers in text (u16 ports, u32 hits)                         *)
(***************************************************************************)
RECURSIVE StripZeros(_)
StripZeros(s) ==
    IF Len(s) > 1 /\ s[1] = "0" THEN StripZeros(Tail(s)) ELSE s

\* Whether the digit string s, of the same length as m, is at most m.
RECURSIVE DigitsLeq(_, _)
DigitsLeq(s, m) ==
    IF s = <<>> THEN TRUE
    ELSE IF DigitVal(s[1]) < DigitVal(m[1]) THEN TRUE
    ELSE IF DigitVal(s[1]) > DigitVal(m[1]) THEN FALSE
    ELSE DigitsLeq(Tail(s), Tail(m))

\* str::parse::<uN>() with maximum value FormatDec-ed as maxText: an optional
\* '+', then one or more digits (leading zeros allowed), no overflow.
\* Some(digits without leading zeros) or None.
ParseUnsignedText(s, maxText) ==
    LET body == IF s # <<>> /\ s[1] = "+" THEN Tail(s) ELSE s
        d == StripZeros(body)
    IN  IF body = <<>> \/ ~AllDigits(body) THEN None
        ELSE IF Len(d) < Len(maxText) THEN Some(d)
        ELSE IF Len(d) = Len(maxText) /\ DigitsLeq(d, maxText) THEN Some(d)
        ELSE None

U16MaxText == <<"6", "5", "5", "3", "5">>
U32MaxText == <<"4", "2", "9", "4", "9", "6", "7", "2", "9", "5">>

\* The largest number of the model, 2^31 - 1.
IntMaxText == <<"2", "1", "4", "7", "4", "8", "3", "6", "4", "7">>

\* The numbers of the model stay below 2^31, so the value of an accepted
\* text is computed up to there; the inputs hold no larger u32.
ParseU16(s) ==
    LET r == ParseUnsignedText(s, U16MaxText)
    IN  IF r.some THEN Some(DecValue(r.val)) ELSE NoneNum

ParseU32(s) ==
    LET r == ParseUnsignedText(s, U32MaxText)
    IN  IF r.some /\ (Len(r.val) <= 9 \/ DigitsLeq(r.val, IntMaxText))
        THEN Some(DecValue(r.val)) ELSE NoneNum

(***************************************************************************)
(* Ordered maps of strings (BTreeMap<String, String>)                      *)
(***************************************************************************)
\* The characters of the model in ASCII order: String's Ord compares bytes.
Ascii ==
    <<" ", "+", ",", "-", ".", "/",
      "0", "1", "2", "3", "4", "5", "6", "7", "8", "9",
      ":", ";", "=",
      "A", "B", "C", "D", "E", "F", "G", "H", "I", "J", "K", "L", "M",
      "N", "O", "P", "Q", "R", "S", "T", "U", "V", "W", "X", "Y", "Z", "_",
      "a", "b", "c", "d", "e", "f", "g", "h", "i", "j", "k", "l", "m",
      "n", "o", "p", "q", "r", "s", "t", "u", "v", "w", "x", "y", "z">>

CharCode(c) == CHOOSE i \in 1..Len(Ascii) : Ascii[i] = c

RECURSIVE StrLess(_, _)
StrLess(a, b) ==
    IF b = <<>> THEN FALSE
    ELSE IF a = <<>> THEN TRUE
    ELSE IF a[1] = b[1] THEN StrLess(Tail(a), Tail(b))
    ELSE CharCode(a[1]) < CharCode(b[1])

\* A map is a function from its keys to their values.
EmptyMap == [k \in {} |-> <<>>]
MapInsert(m, k, v) == [x \in DOMAIN m \cup {k} |-> IF x = k THEN v ELSE m[x]]

\* The keys in ascending order: BTreeMap's iteration order.
RECURSIVE SortedKeys(_)
SortedKeys(keys) ==
    IF keys = {} THEN <<>>
    ELSE LET least == CHOOSE k \in keys : \A o \in keys \ {k} : StrLess(k, o)
         IN  <<least>> \o SortedKeys(keys \ {least})

(***************************************************************************)
(* encoding/txt_intel.rs                                                   *)
(***************************************************************************)
SIMPLE_MAX_BYTES == 250
CBOR_PREFIX == <<"c", "b", "o", "r", ":">>

K_cc == <<"c", "c">>
K_asn == <<"a", "s", "n">>
K_org == <<"o", "r", "g">>
K_ports == <<"p", "o", "r", "t", "s">>
K_threat == <<"t", "h", "r", "e", "a", "t">>
K_pattern == <<"p", "a", "t", "t", "e", "r", "n">>
K_hits == <<"h", "i", "t", "s">>
Eq == <<"=">>
T_blocked == <<"b", "l", "o", "c", "k", "e", "d">>

\* ReputationData::empty(): every Option None, no ports, no extras.
ReputationData_empty ==
    [cc |-> None, asn |-> None, org |-> None, ports |-> <<>>,
     threat |-> None, pattern |-> None, hits |-> NoneNum, extra |-> EmptyMap]

\* ports.iter().map(ToString::to_string)
PortTexts(ports) == [i \in 1..Len(ports) |-> FormatDec(ports[i])]

encode_simple(data) ==
    LET opt(k, f) == IF f.some THEN <<k \o Eq \o f.val>> ELSE <<>>
        keys == SortedKeys(DOMAIN data.extra)
        parts ==
            opt(K_cc, data.cc) \o opt(K_asn, data.asn) \o opt(K_org, data.org)
            \o (IF data.ports # <<>>
                THEN <<K_ports \o Eq \o Join(PortTexts(data.ports), <<",">>)>>
                ELSE <<>>)
            \o opt(K_threat, data.threat) \o opt(K_pattern, data.pattern)
            \o (IF data.hits.some
                THEN <<K_hits \o Eq \o FormatDec(data.hits.val)>> ELSE <<>>)
            \o [i \in 1..Len(keys) |-> keys[i] \o Eq \o data.extra[keys[i]]]
    IN  Join(parts, <<";">>)

\* str::split_once('='): the text before and after the first '='.
split_once(s, c) ==
    IF ~Contains(s, c) THEN None
    ELSE LET i == CHOOSE j \in 1..Len(s) : s[j] = c /\ \A k \in 1..(j - 1) : s[k] # c
         IN  Some(<<SubSeq(s, 1, i - 1), SubSeq(s, i + 1, Len(s))>>)

\* value.split(',').filter_map(|p| p.parse().ok()).collect()
RECURSIVE ParsePorts(_)
ParsePorts(texts) ==
    IF texts = <<>> THEN <<>>
    ELSE LET p == ParseU16(texts[1])
         IN  (IF p.some THEN <<p.val>> ELSE <<>>) \o ParsePorts(Tail(texts))

\* One k=v part applied to the data decoded so far.
DecodePart(data, part) ==
    LET kv == split_once(part, "=")
        key == kv.val[1]
        value == kv.val[2]
    IN  IF ~kv.some THEN data
        ELSE IF key = K_cc THEN [data EXCEPT !.cc = Some(value)]
        ELSE IF key = K_asn THEN [data EXCEPT !.asn = Some(value)]
        ELSE IF key = K_org THEN [data EXCEPT !.org = Some(value)]
        ELSE IF key = K_ports
            THEN [data EXCEPT !.ports = ParsePorts(Split(value, ","))]
        ELSE IF key = K_threat THEN [data EXCEPT !.threat = Some(value)]
        ELSE IF key = K_pattern THEN [data EXCEPT !.pattern = Some(value)]
        ELSE IF key = K_hits THEN [data EXCEPT !.hits = ParseU32(value)]
        ELSE [data EXCEPT !.extra = MapInsert(data.extra, key, value)]

RECURSIVE DecodeParts(_, _)
DecodeParts(data, parts) ==
    IF parts = <<>> THEN data
    ELSE DecodeParts(DecodePart(data, parts[1]), Tail(parts))

decode_simple(txt) == DecodeParts(ReputationData_empty, Split(txt, ";"))

\* The CBOR map that serde writes for a ReputationData, base64-encoded. CBOR
\* frames every item by type and length, so the payload is modelled by tokens
\* that no text contains: "<map>" opens it, and each entry is its type
\* ("<text>", "<uint>", "<array>"), its key, "<is>", its value and "<end>".
\* Fields are written in declaration order, None and empty ports skipped
\* (skip_serializing_if), then the flattened extras in key order.
CborText(k, v) == <<"<text>">> \o k \o <<"<is>">> \o v \o <<"<end>">>
CborUint(k, n) == <<"<uint>">> \o k \o <<"<is>">> \o FormatDec(n) \o <<"<end>">>
CborArray(k, ns) ==
    <<"<array>">> \o k \o <<"<is>">> \o Join(PortTexts(ns), <<"<item>">>) \o <<"<end>">>

RECURSIVE Concat(_)
Concat(ss) == IF ss = <<>> THEN <<>> ELSE ss[1] \o Concat(Tail(ss))

CborB64(data) ==
    LET opt(k, f) == IF f.some THEN CborText(k, f.val) ELSE <<>>
        keys == SortedKeys(DOMAIN data.extra)
    IN  <<"<map>">>
        \o opt(K_cc, data.cc) \o opt(K_asn, data.asn) \o opt(K_org, data.org)
        \o (IF data.ports # <<>> THEN CborArray(K_ports, data.ports) ELSE <<>>)
        \o opt(K_threat, data.threat) \o opt(K_pattern, data.pattern)
        \o (IF data.hits.some THEN CborUint(K_hits, data.hits.val) ELSE <<>>)
        \o Concat([i \in 1..Len(keys) |-> CborText(keys[i], data.extra[keys[i]])])

encode_cbor(data) == Ok(CBOR_PREFIX \o CborB64(data))

\* One map entry applied to the fields read so far (serde's derived visitor):
\* a known key read twice is a duplicate-field error, a value of the wrong
\* type is an invalid-type error, an unknown key goes to the flattened extras.
CborEntry(acc, entry) ==
    LET tag == entry[1]
        kv == split_once(Tail(entry), "<is>")
        key == kv.val[1]
        value == kv.val[2]
        bad == [acc EXCEPT !.ok = FALSE]
        text(f) ==
            IF tag # "<text>" \/ key \in acc.seen THEN bad
            ELSE [acc EXCEPT !.data[f] = Some(value), !.seen = @ \cup {key}]
    IN  IF ~acc.ok \/ entry = <<>> THEN bad
        ELSE IF ~kv.some THEN bad
        ELSE IF key = K_cc THEN text("cc")
        ELSE IF key = K_asn THEN text("asn")
        ELSE IF key = K_org THEN text("org")
        ELSE IF key = K_threat THEN text("threat")
        ELSE IF key = K_pattern THEN text("pattern")
        ELSE IF key = K_ports THEN
            IF tag # "<array>" \/ key \in acc.seen THEN bad
            ELSE [acc EXCEPT
                    !.data.ports = ParsePorts(Split(value, "<item>")),
                    !.seen = @ \cup {key}]
        ELSE IF key = K_hits THEN
            IF tag # "<uint>" \/ key \in acc.seen THEN bad
            ELSE [acc EXCEPT !.data.hits = ParseU32(value), !.seen = @ \cup {key}]
        ELSE IF tag # "<text>" THEN bad
        ELSE [acc EXCEPT !.data.extra = MapInsert(@, key, value)]

RECURSIVE CborEntries(_, _)
CborEntries(acc, entries) ==
    IF entries = <<>> THEN acc
    ELSE CborEntries(CborEntry(acc, entries[1]), Tail(entries))

\* base64 and CBOR decoding: text that is no base64 of a CBOR map (it does
\* not open with the map token, or does not close its last entry) fails.
decode_cbor(b64) ==
    LET items == Split(Tail(b64), "<end>")
        entries == SubSeq(items, 1, Len(items) - 1)
        start == [ok |-> TRUE, data |-> ReputationData_empty, seen |-> {}]
        got == CborEntries(start, entries)
    IN  IF b64 = <<>> \/ b64[1] # "<map>" THEN Err("Cbor")
        ELSE IF items[Len(items)] # <<>> THEN Err("Cbor")
        ELSE IF ~got.ok THEN Err("Cbor")
        ELSE Ok(got.data)

encode(data) ==
    LET pick(simple) ==
            IF Len(simple) <= SIMPLE_MAX_BYTES THEN Ok(simple)
            ELSE encode_cbor(data)
    IN  pick(encode_simple(data))

decode(txt) ==
    LET rest == strip_prefix(txt, CBOR_PREFIX)
    IN  IF rest.some THEN decode_cbor(rest.val) ELSE Ok(decode_simple(txt))

(***************************************************************************)
(* hickory_proto::rr::Name, Record and RecordSet; InMemoryAuthority        *)
(***************************************************************************)
UpperCase ==
    <<"A", "B", "C", "D", "E", "F", "G", "H", "I", "J", "K", "L", "M",
      "N", "O", "P", "Q", "R", "S", "T", "U", "V", "W", "X", "Y", "Z">>
LowerCase ==
    <<"a", "b", "c", "d", "e", "f", "g", "h", "i", "j", "k", "l", "m",
      "n", "o", "p", "q", "r", "s", "t", "u", "v", "w", "x", "y", "z">>

ToLowerChar(c) ==
    IF \E i \in 1..26 : UpperCase[i] = c
    THEN LowerCase[CHOOSE i \in 1..26 : UpperCase[i] = c]
    ELSE c

ToLower(s) == [i \in 1..Len(s) |-> ToLowerChar(s[i])]

\* The longest label of a DNS name.
MAX_LABEL_LEN == 63

\* Name::parse(text, None): the labels between the dots, fully qualified when
\* the text ends with a dot. An empty label (a leading dot, two dots in a
\* row), a space in a label or a label of more than 63 bytes is an error.
\* Names compare without regard to case, so the labels are kept in lower case.
Name_parse(text) ==
    LET fqdn == text # <<>> /\ text[Len(text)] = "."
        of(labels) ==
            IF \E i \in 1..Len(labels) :
                    \/ labels[i] = <<>>
                    \/ Len(labels[i]) > MAX_LABEL_LEN
                    \/ Contains(labels[i], " ")
            THEN Err("Proto")
            ELSE Ok([labels |-> [i \in 1..Len(labels) |-> ToLower(labels[i])],
                     fqdn |-> fqdn])
        among(parts) ==
            of(IF fqdn \/ text = <<>>
               THEN SubSeq(parts, 1, Len(parts) - 1) ELSE parts)
    IN  IF text = <<".">> THEN Ok([labels |-> <<>>, fqdn |-> TRUE])
        ELSE among(Split(text, "."))

\* Record::from_rdata(name, ttl, rdata), with the record type of the rdata.
Record(name, rtype, ttl, rdata) ==
    [name |-> name, rtype |-> rtype, ttl |-> ttl, rdata |-> rdata]

\* RecordSet::insert(record, serial). A SOA replaces the one held unless its
\* serial is not newer; for the other types, a record whose rdata is already
\* in the set is ignored (Record's equality does not read the TTL) and any
\* other record is appended, the set taking its TTL.
\* [changed, rs].
RecordSet_insert(rs, record, serial) ==
    LET stale == /\ record.rtype = "SOA"
                 /\ rs.records # <<>>
                 /\ record.rdata.serial <= rs.records[1].rdata.serial
        kept == IF record.rtype = "SOA" THEN <<>> ELSE rs.records
        present == \E i \in 1..Len(kept) : kept[i].rdata = record.rdata
    IN  IF stale \/ present THEN [changed |-> FALSE, rs |-> rs]
        ELSE [changed |-> TRUE,
              rs |-> [rs EXCEPT !.records = Append(kept, record),
                                !.ttl = record.ttl,
                                !.serial = serial]]

\* An InMemoryAuthority is its origin and its record sets, one per
\* (name, record type).
RrsetsAt(zone, name, rtype) ==
    {rs \in zone.rrsets : rs.name = name /\ rs.rtype = rtype}

\* InMemoryAuthority::upsert_mut(record, serial): the record set of the
\* record's name and type, created empty when absent, takes the record.
upsert_mut(zone, record, serial) ==
    LET held == RrsetsAt(zone, record.name, record.rtype)
        rs == IF held # {} THEN CHOOSE r \in held : TRUE
              ELSE [name |-> record.name, rtype |-> record.rtype, ttl |-> 0,
                    serial |-> serial, records |-> <<>>]
        put(ins) ==
            IF ins.changed
            THEN [zone EXCEPT !.rrsets = (@ \ held) \cup {ins.rs}]
            ELSE zone
    IN  put(RecordSet_insert(rs, record, serial))

\* The records a zone holds at a name and type (none when it has no such set).
RecordsAt(zone, name, rtype) ==
    LET held == RrsetsAt(zone, name, rtype)
    IN  IF held = {} THEN <<>> ELSE (CHOOSE r \in held : TRUE).records

(***************************************************************************)
(* authority/ttl_policy.rs                                                 *)
(***************************************************************************)
NS_TTL == 86400
BLOCKLIST_CONFIRMED_TTL == 86400
BLOCKLIST_SUSPICIOUS_TTL == 3600
BLOCKLIST_COMMUNITY_TTL == 43200
REPUTATION_TTL == 7200
SIGNAL_TTL == 30
GEO_ASN_TTL == 86400
SOA_MINIMUM_TTL == 300
SOA_REFRESH == 3600
SOA_RETRY == 900
SOA_EXPIRE == 604800

\* One TTL for every class: the confirmed one.
ttl_for_threat_class_flat(class) ==
    CASE class = "Confirmed" -> BLOCKLIST_CONFIRMED_TTL
      [] class = "Suspicious" -> BLOCKLIST_CONFIRMED_TTL
      [] class = "Community" -> BLOCKLIST_CONFIRMED_TTL
      [] class = "Clean" -> SOA_MINIMUM_TTL

ttl_for_threat_class(class) ==
    CASE class = "Confirmed" -> BLOCKLIST_CONFIRMED_TTL
      [] class = "Suspicious" -> BLOCKLIST_SUSPICIOUS_TTL
      [] class = "Community" -> BLOCKLIST_COMMUNITY_TTL
      [] class = "Clean" -> SOA_MINIMUM_TTL

(***************************************************************************)
(* encoding/dnsbl.rs: DnsblCode                                            *)
(***************************************************************************)
DnsblCodes ==
    {"Listed", "Malicious", "Suspicious", "WebScanner", "BruteForce", "Community"}

\* The discriminants with Community given the value of BruteForce.
DnsblCode_u8_community_as_bruteforce(code) ==
    CASE code = "Listed" -> 1
      [] code = "Malicious" -> 2
      [] code = "Suspicious" -> 3
      [] code = "WebScanner" -> 4
      [] code = "BruteForce" -> 5
      [] code = "Community" -> 5

\* The enum's discriminant (self as u8).
DnsblCode_u8(code) ==
    CASE code = "Listed" -> 1
      [] code = "Malicious" -> 2
      [] code = "Suspicious" -> 3
      [] code = "WebScanner" -> 4
      [] code = "BruteForce" -> 5
      [] code = "Community" -> 10

DnsblCode_to_ipv4(code) == <<127, 0, 0, DnsblCode_u8(code)>>

(***************************************************************************)
(* encoding/signal.rs                                                      *)
(***************************************************************************)
\* {:02} and {:04}: decimal, padded with zeros on the left.
PadDec(n, width) ==
    LET d == FormatDec(n)
    IN  IF Len(d) >= width THEN d ELSE [i \in 1..(width - Len(d)) |-> "0"] \o d

\* chrono's %Y: four digits, and a sign before a year past 9999.
FormatYear(year) ==
    IF year <= 9999 THEN PadDec(year, 4) ELSE <<"+">> \o FormatDec(year)

\* DateTime<Utc>::format("%Y-%m-%dT%H:%MZ"); a time is
\* [year, month, day, hour, minute, second].
FormatMinuteUtc(time) ==
    FormatYear(time.year) \o <<"-">> \o PadDec(time.month, 2) \o <<"-">>
        \o PadDec(time.day, 2) \o <<"T">> \o PadDec(time.hour, 2) \o <<":">>
        \o PadDec(time.minute, 2) \o <<"Z">>

\* SignalData::new(serial, entries), Utc::now() being now.
SignalData_new(serial, entries, now) ==
    [serial |-> serial, entries |-> entries, updated |-> now]

\* SignalData::bump(new_entry_count), Utc::now() being now.
SignalData_bump(signal, new_entry_count, now) ==
    [serial |-> signal.serial + 1, entries |-> new_entry_count, updated |-> now]

SignalData_to_txt(signal) ==
    <<"s", "e", "r", "i", "a", "l", "=">> \o FormatDec(signal.serial) \o <<";", "e", "n", "t", "r", "i", "e", "s", "=">>
        \o FormatDec(signal.entries) \o <<";", "u", "p", "d", "a", "t", "e", "d", "=">>
        \o FormatMinuteUtc(signal.updated)

\* ---- chrono's parsers, as SignalData::from_txt calls them.  A time is to
\* the second: a fraction of a second is read and dropped.  The texts of the
\* model hold no white space and no year before 0.
IsLeapYear(year) == (year % 4 = 0 /\ year % 100 # 0) \/ year % 400 = 0

DaysInMonth(year, month) ==
    IF month = 2 THEN (IF IsLeapYear(year) THEN 29 ELSE 28)
    ELSE IF month \in {4, 6, 9, 11} THEN 30 ELSE 31

\* Whether the parsed fields make a date and a time of day (262142 is the
\* last year of a chrono date, second 60 a leap second).
ValidDateTime(t) ==
    /\ t.year <= 262142
    /\ t.month \in 1..12
    /\ t.day \in 1..DaysInMonth(t.year, t.month)
    /\ t.hour <= 23
    /\ t.minute <= 59
    /\ t.second <= 60

\* The length of the run of digits that starts s, max at most.
DigitRun(s, max) ==
    LET ks == {k \in 0..Len(s) : k <= max /\ \A i \in 1..k : IsDigit(s[i])}
    IN  CHOOSE k \in ks : \A j \in ks : j <= k

\* The items of a format string.  A number takes digits, min to max of
\* them; a signed number (%Y) takes any number of digits after a '+' and
\* at most max without one.  A literal takes one of its characters.
NumItem(field, min, max, signed) ==
    [kind |-> "number", field |-> field, min |-> min, max |-> max,
     signed |-> signed, chars |-> {}]
LitItem(chars) ==
    [kind |-> "literal", field |-> "none", min |-> 1, max |-> 1,
     signed |-> FALSE, chars |-> chars]

\* "%Y-%m-%dT%H:%MZ"
MinuteItems ==
    << NumItem("year", 1, 4, TRUE), LitItem({"-"}), NumItem("month", 1, 2, FALSE),
       LitItem({"-"}), NumItem("day", 1, 2, FALSE), LitItem({"T"}),
       NumItem("hour", 1, 2, FALSE), LitItem({":"}), NumItem("minute", 1, 2, FALSE),
       LitItem({"Z"}) >>

\* The date and time of RFC 3339, up to the seconds.
Rfc3339Items ==
    << NumItem("year", 4, 4, FALSE), LitItem({"-"}), NumItem("month", 2, 2, FALSE),
       LitItem({"-"}), NumItem("day", 2, 2, FALSE), LitItem({"T", "t", " "}),
       NumItem("hour", 2, 2, FALSE), LitItem({":"}), NumItem("minute", 2, 2, FALSE),
       LitItem({":"}), NumItem("second", 2, 2, FALSE) >>

NoFields ==
    [year |-> 0, month |-> 0, day |-> 0, hour |-> 0, minute |-> 0, second |-> 0]

\* format::parse over the items from the i-th on: the fields read and the
\* text left, or None.  A year of more than six digits is out of range.
RECURSIVE ParseItems(_, _, _, _)
ParseItems(s, items, i, fields) ==
    IF i > Len(items) THEN Some([fields |-> fields, rest |-> s])
    ELSE LET item == items[i]
             plus == item.signed /\ s # <<>> /\ s[1] = "+"
             body == IF plus THEN Tail(s) ELSE s
             k == DigitRun(body, IF plus THEN Len(body) ELSE item.max)
         IN  IF item.kind = "literal"
             THEN IF s # <<>> /\ s[1] \in item.chars
                  THEN ParseItems(Tail(s), items, i + 1, fields)
                  ELSE None
             ELSE IF k < item.min \/ k > 6 THEN None
             ELSE ParseItems(SubSeq(body, k + 1, Len(body)), items, i + 1,
                             [fields EXCEPT ![item.field] = DecValue(SubSeq(body, 1, k))])

\* NaiveDateTime::parse_from_str(s, "%Y-%m-%dT%H:%MZ").and_utc(): the whole
\* text is read; the seconds, which the format lacks, are 0.
NaiveDateTime_parse_minute(s) ==
    LET of(r) ==
            IF r.some /\ r.val.rest = <<>> /\ ValidDateTime(r.val.fields)
            THEN Some(r.val.fields) ELSE None
    IN  of(ParseItems(s, MinuteItems, 1, NoFields))

\* The day before and the day after a date.
PrevDay(t) ==
    IF t.day > 1 THEN [t EXCEPT !.day = t.day - 1]
    ELSE IF t.month > 1
         THEN [t EXCEPT !.month = t.month - 1,
                        !.day = DaysInMonth(t.year, t.month - 1)]
         ELSE [t EXCEPT !.year = t.year - 1, !.month = 12, !.day = 31]

NextDay(t) ==
    IF t.day < DaysInMonth(t.year, t.month) THEN [t EXCEPT !.day = t.day + 1]
    ELSE IF t.month < 12 THEN [t EXCEPT !.month = t.month + 1, !.day = 1]
         ELSE [t EXCEPT !.year = t.year + 1, !.month = 1, !.day = 1]

\* with_timezone(&Utc) of a local time whose offset from UTC is `east`
\* minutes.
ToUtc(t, east) ==
    LET m == t.hour * 60 + t.minute - east
        at(day, mm) == [day EXCEPT !.hour = mm \div 60, !.minute = mm % 60]
    IN  IF m < 0 THEN at(PrevDay(t), m + 1440)
        ELSE IF m >= 1440 THEN at(NextDay(t), m - 1440)
        ELSE at(t, m)

\* The end of an RFC 3339 time: an optional fraction, then Z or +hh:mm or
\* -hh:mm.  The minutes east of UTC, or None.
Rfc3339Offset(s) ==
    LET frac == IF s # <<>> /\ s[1] = "." THEN DigitRun(Tail(s), Len(s)) ELSE 0
        zone == IF s # <<>> /\ s[1] = "." THEN SubSeq(s, frac + 2, Len(s)) ELSE s
        hhmm == ParseItems(Tail(zone),
                           << NumItem("hour", 2, 2, FALSE), LitItem({":"}),
                              NumItem("minute", 2, 2, FALSE) >>, 1, NoFields)
    IN  IF s # <<>> /\ s[1] = "." /\ frac = 0 THEN NoneNum
        ELSE IF zone = <<"Z">> \/ zone = <<"z">> THEN Some(0)
        ELSE IF zone = <<>> \/ zone[1] \notin {"+", "-"} THEN NoneNum
        ELSE IF ~hhmm.some THEN NoneNum
        ELSE IF hhmm.val.rest # <<>> \/ hhmm.val.fields.hour > 23
                \/ hhmm.val.fields.minute > 59 THEN NoneNum
        ELSE Some((IF zone[1] = "+" THEN 1 ELSE -1)
                    * (hhmm.val.fields.hour * 60 + hhmm.val.fields.minute))

\* DateTime::parse_from_rfc3339(s).with_timezone(&Utc)
DateTime_parse_from_rfc3339(s) ==
    LET of(r) ==
            IF ~r.some THEN None
            ELSE IF ~ValidDateTime(r.val.fields) THEN None
            ELSE LET east(o) == IF o.some THEN Some(ToUtc(r.val.fields, o.val)) ELSE None
                 IN  east(Rfc3339Offset(r.val.rest))
    IN  of(ParseItems(s, Rfc3339Items, 1, NoFields))

U64MaxText ==
    <<"1", "8", "4", "4", "6", "7", "4", "4", "0", "7", "3", "7", "0", "9", "5", "5", "1", "6", "1", "5">>

\* str::parse::<u64>(); the inputs hold no number past 2^31 - 1.
ParseU64(s) ==
    LET r == ParseUnsignedText(s, U64MaxText)
    IN  IF r.some /\ (Len(r.val) <= 9
                        \/ (Len(r.val) = 10 /\ DigitsLeq(r.val, IntMaxText)))
        THEN Some(DecValue(r.val)) ELSE NoneNum

\* The three Options of from_txt before any part is read; err is the error
\* that `?` returns.
NoSignalFields == [serial |-> NoneNum, entries |-> NoneNum, updated |-> None, err |-> "none"]

\* One part of txt.split(';'): a part without '=' and an unknown key are
\* passed over.
from_txt_part(acc, part) ==
    LET kv == split_once(part, "=")
        field(key, value) ==
            IF key = <<"s", "e", "r", "i", "a", "l">>
            THEN IF ParseU64(value).some
                 THEN [acc EXCEPT !.serial = ParseU64(value)]
                 ELSE [acc EXCEPT !.err = "Encoding"]
            ELSE IF key = <<"e", "n", "t", "r", "i", "e", "s">>
            THEN IF ParseU32(value).some
                 THEN [acc EXCEPT !.entries = ParseU32(value)]
                 ELSE [acc EXCEPT !.err = "Encoding"]
            ELSE IF key = <<"u", "p", "d", "a", "t", "e", "d">>
            THEN [acc EXCEPT !.updated = Some(value)]
            ELSE acc
    IN  IF kv.some THEN field(kv.val[1], kv.val[2]) ELSE acc

\* The loop over the parts, left at the first error.
RECURSIVE from_txt_parts(_, _, _)
from_txt_parts(acc, parts, i) ==
    IF i > Len(parts) \/ acc.err # "none" THEN acc
    ELSE from_txt_parts(from_txt_part(acc, parts[i]), parts, i + 1)

\* The timestamp of from_txt: the minute form, or else RFC 3339.
parse_updated(updated_str) ==
    LET or_else(minute) ==
            IF minute.some THEN minute ELSE DateTime_parse_from_rfc3339(updated_str)
    IN  or_else(NaiveDateTime_parse_minute(updated_str))

\* from_txt that takes a missing entries field as 0.
SignalData_from_txt_default_entries(txt) ==
    LET of(acc) ==
            IF acc.err # "none" THEN Err(acc.err)
            ELSE IF ~acc.serial.some THEN Err("Encoding")
            ELSE IF ~acc.updated.some THEN Err("Encoding")
            ELSE LET at(updated) ==
                         IF updated.some
                         THEN Ok([serial |-> acc.serial.val,
                                  entries |-> acc.entries.val,
                                  updated |-> updated.val])
                         ELSE Err("Encoding")
                 IN  at(parse_updated(acc.updated.val))
    IN  of(from_txt_parts(NoSignalFields, Split(txt, ";"), 1))

\* SignalData::from_txt(txt)
SignalData_from_txt(txt) ==
    LET of(acc) ==
            IF acc.err # "none" THEN Err(acc.err)
            ELSE IF ~acc.serial.some THEN Err("Encoding")
            ELSE IF ~acc.entries.some THEN Err("Encoding")
            ELSE IF ~acc.updated.some THEN Err("Encoding")
            ELSE LET at(updated) ==
                         IF updated.some
                         THEN Ok([serial |-> acc.serial.val,
                                  entries |-> acc.entries.val,
                                  updated |-> updated.val])
                         ELSE Err("Encoding")
                 IN  at(parse_updated(acc.updated.val))
    IN  of(from_txt_parts(NoSignalFields, Split(txt, ";"), 1))

SignalData_query_name(zone) == <<"_", "v", ".">> \o zone

(***************************************************************************)
(* config.rs: the zone origins                                             *)
(***************************************************************************)
ZoneBl == <<"b", "l", ".", "i", "1", ".", "i", "s", ".">>
ZoneRep == <<"r", "e", "p", ".", "i", "1", ".", "i", "s", ".">>
ZoneGeo == <<"g", "e", "o", ".", "i", "1", ".", "i", "s", ".">>
ZoneAsn == <<"a", "s", "n", ".", "i", "1", ".", "i", "s", ".">>
ZoneSig == <<"s", "i", "g", ".", "i", "1", ".", "i", "s", ".">>

\* ZoneConfig::default()
ZoneConfig_default ==
    [blocklist |-> ZoneBl, reputation |-> ZoneRep, geo |-> ZoneGeo,
     asn |-> ZoneAsn, signal |-> ZoneSig]

(***************************************************************************)
(* authority/threat_authority.rs                                           *)
(***************************************************************************)
\* InMemoryAuthority::empty(origin, ZoneType::Primary, false)
InMemoryAuthority_empty(origin) == [origin |-> origin, rrsets |-> {}]

\* RData::TXT(TXT::new(vec![text])): one character-string.
TxtRdata(text) == <<text>>

create_zone(origin, serial) ==
    LET soa(mname, rname) ==
            [mname |-> mname, rname |-> rname, serial |-> serial,
             refresh |-> SOA_REFRESH, retry |-> SOA_RETRY,
             expire |-> SOA_EXPIRE, minimum |-> SOA_MINIMUM_TTL]
        with(mname, rname) ==
            IF ~mname.ok \/ ~rname.ok THEN Err("Zone")
            ELSE Ok(upsert_mut(InMemoryAuthority_empty(origin),
                               Record(origin, "SOA", NS_TTL,
                                      soa(mname.val, rname.val)),
                               serial))
    IN  with(Name_parse(<<"n", "s", "1", ".", "i", "1", ".", "i", "s", ".">>), Name_parse(<<"a", "d", "m", "i", "n", ".", "i", "1", ".", "i", "s", ".">>))

\* Ok(the authority with the record) or Err.
insert_dnsbl_record(authority, ip, code, zone_origin, serial) ==
    LET ttl == ttl_for_threat_class(
                   CASE code = "Suspicious" -> "Suspicious"
                     [] code = "Community" -> "Community"
                     [] OTHER -> "Confirmed")
        at(name) ==
            IF ~name.ok THEN Err("Zone")
            ELSE Ok(upsert_mut(authority,
                               Record(name.val, "A", ttl, DnsblCode_to_ipv4(code)),
                               serial))
    IN  at(Name_parse(reverse_ipv4(ip) \o <<".">> \o zone_origin))

insert_txt_record(authority, name, txt_data, ttl, serial) ==
    upsert_mut(authority, Record(name, "TXT", ttl, TxtRdata(txt_data)), serial)

insert_signal_record(authority, zone_origin, signal_txt, serial) ==
    LET at(name) ==
            IF ~name.ok THEN Err("Zone")
            ELSE Ok(upsert_mut(authority,
                               Record(name.val, "TXT", SIGNAL_TTL,
                                      TxtRdata(signal_txt)),
                               serial))
    IN  at(Name_parse(SignalData_query_name(zone_origin)))

(***************************************************************************)
(* authority/zone_builder.rs                                               *)
(***************************************************************************)
\* DefenseSnapshot::default()
DefenseSnapshot_default ==
    [blocked_ips |-> <<>>, blocked_countries |-> <<>>,
     blocked_countries_outbound |-> <<>>, blocked_asns |-> <<>>,
     whitelisted_ips |-> <<>>]

\* The text before the first '/' of an entry.
NetworkAddress(ip_str) ==
    SubSeq(ip_str, 1, (CHOOSE i \in 1..Len(ip_str) :
                          ip_str[i] = "/" /\ \A j \in 1..(i - 1) : ip_str[j] # "/") - 1)

\* One turn of the loop that lists the address and leaves the reputation
\* zone as it was.
PublishIp_without_reputation(acc, ip, zones, serial) ==
    LET with(listed) ==
            IF ~listed.ok THEN Err("Zone")
            ELSE Ok([blocklist |-> listed.val, reputation |-> acc.reputation,
                     count |-> acc.count + 1])
    IN  with(insert_dnsbl_record(acc.blocklist, ip, "Listed", zones.blocklist,
                                 serial))

\* One turn of the loop of populate_ip_records over [blocklist, reputation,
\* count]: Ok(the three after the entry) or the Err that ends the function.
PublishIp(acc, ip, zones, serial) ==
    LET rep_data == [ReputationData_empty EXCEPT !.threat = Some(T_blocked)]
        with(listed, txt, name) ==
            IF ~listed.ok THEN Err("Zone")
            ELSE IF txt.ok /\ ~name.ok THEN Err("Zone")
            ELSE Ok([blocklist |-> listed.val,
                     reputation |->
                         IF txt.ok
                         THEN insert_txt_record(acc.reputation, name.val,
                                                txt.val, REPUTATION_TTL, serial)
                         ELSE acc.reputation,
                     count |-> acc.count + 1])
    IN  with(insert_dnsbl_record(acc.blocklist, ip, "Listed", zones.blocklist,
                                 serial),
             encode(rep_data),
             Name_parse(reverse_ipv4(ip) \o <<".">> \o zones.reputation))

\* The loop body that publishes the network address of a CIDR entry as if
\* it were a blocked host.
ip_entry_cidr_as_host(acc, ip_str, zones, serial) ==
    LET of(ip) == IF ip.ok THEN PublishIp(acc, ip.val, zones, serial) ELSE Ok(acc)
    IN  of(ParseIpv4(IF Contains(ip_str, "/") THEN NetworkAddress(ip_str)
                     ELSE ip_str))

ip_entry(acc, ip_str, zones, serial) ==
    LET of(ip) == IF ip.ok THEN PublishIp(acc, ip.val, zones, serial) ELSE Ok(acc)
    IN  IF Contains(ip_str, "/") THEN Ok(acc)
        ELSE of(ParseIpv4(ip_str))

RECURSIVE ip_entries(_, _, _, _, _)
ip_entries(acc, ips, i, zones, serial) ==
    LET then(next) ==
            IF ~next.ok THEN next
            ELSE ip_entries(next.val, ips, i + 1, zones, serial)
    IN  IF i > Len(ips) THEN Ok(acc)
        ELSE then(ip_entry(acc, ips[i], zones, serial))

\* populate_ip_records that passes over the entries of whitelisted_ips.
populate_ip_records_honouring_whitelist(blocklist, reputation, snapshot, zones, serial) ==
    ip_entries([blocklist |-> blocklist, reputation |-> reputation, count |-> 0],
               SelectSeq(snapshot.blocked_ips,
                         LAMBDA ip_str :
                             \A i \in 1..Len(snapshot.whitelisted_ips) :
                                 snapshot.whitelisted_ips[i] # ip_str),
               1, zones, serial)

\* Ok([blocklist, reputation, count]) or Err.
populate_ip_records(blocklist, reputation, snapshot, zones, serial) ==
    ip_entries([blocklist |-> blocklist, reputation |-> reputation, count |-> 0],
               snapshot.blocked_ips, 1, zones, serial)

\* Vec::contains
SeqContains(seq, x) == \E i \in 1..Len(seq) : seq[i] = x

\* The geo record of a country and direction, upserted into [geo, count].
geo_upsert(acc, country, direction, zones, serial) ==
    LET at(name) ==
            IF ~name.ok THEN Err("Zone")
            ELSE Ok([geo |-> upsert_mut(
                                 acc.geo,
                                 Record(name.val, "TXT", GEO_ASN_TTL,
                                        TxtRdata(<<"s", "t", "a", "t", "u", "s", "=", "b", "l", "o", "c", "k", "e", "d", ";", "d", "i", "r", "e", "c", "t", "i", "o", "n", "=">>
                                                 \o direction)),
                                 serial),
                     count |-> acc.count + 1])
    IN  at(Name_parse(country \o <<".">> \o zones.geo))

\* One turn of the loop over blocked_countries.
geo_inbound_entry(acc, country, zones, serial) ==
    geo_upsert(acc, country, <<"i", "n", "b", "o", "u", "n", "d">>, zones, serial)

\* The outbound turn that leaves a country of both lists to the inbound loop:
\* no record and no count for it.
geo_outbound_entry_skipping_both(acc, country, snapshot, zones, serial) ==
    IF SeqContains(snapshot.blocked_countries, country) THEN Ok(acc)
    ELSE geo_upsert(acc, country, <<"o", "u", "t", "b", "o", "u", "n", "d">>, zones, serial)

\* One turn of the loop over blocked_countries_outbound.
geo_outbound_entry(acc, country, snapshot, zones, serial) ==
    LET direction == IF SeqContains(snapshot.blocked_countries, country)
                     THEN <<"b", "o", "t", "h">> ELSE <<"o", "u", "t", "b", "o", "u", "n", "d">>
    IN  geo_upsert(acc, country, direction, zones, serial)

RECURSIVE geo_inbound_entries(_, _, _, _, _)
geo_inbound_entries(acc, countries, i, zones, serial) ==
    LET then(next) ==
            IF ~next.ok THEN next
            ELSE geo_inbound_entries(next.val, countries, i + 1, zones, serial)
    IN  IF i > Len(countries) THEN Ok(acc)
        ELSE then(geo_inbound_entry(acc, countries[i], zones, serial))

RECURSIVE geo_outbound_entries(_, _, _, _, _, _)
geo_outbound_entries(acc, countries, i, snapshot, zones, serial) ==
    LET then(next) ==
            IF ~next.ok THEN next
            ELSE geo_outbound_entries(next.val, countries, i + 1, snapshot,
                                      zones, serial)
    IN  IF i > Len(countries) THEN Ok(acc)
        ELSE then(geo_outbound_entry(acc, countries[i], snapshot, zones, serial))

\* Ok([geo, count]) or Err.
populate_geo_records(geo, snapshot, zones, serial) ==
    LET then(inbound) ==
            IF ~inbound.ok THEN inbound
            ELSE geo_outbound_entries(inbound.val,
                                      snapshot.blocked_countries_outbound, 1,
                                      snapshot, zones, serial)
    IN  then(geo_inbound_entries([geo |-> geo, count |-> 0],
                                 snapshot.blocked_countries, 1, zones, serial))

\* One turn of the loop of populate_asn_records over [asn, count].
asn_entry(acc, asn_str, zones, serial) ==
    LET upper == strip_prefix(asn_str, <<"A", "S">>)
        lower == strip_prefix(asn_str, <<"a", "s">>)
        num == IF upper.some THEN upper.val
               ELSE IF lower.some THEN lower.val ELSE asn_str
        at(name) ==
            IF ~name.ok THEN Err("Zone")
            ELSE Ok([asn |-> upsert_mut(
                                 acc.asn,
                                 Record(name.val, "TXT", GEO_ASN_TTL,
                                        TxtRdata(<<"s", "t", "a", "t", "u", "s", "=", "b", "l", "o", "c", "k", "e", "d", ";", "a", "s", "n", "=">> \o asn_str)),
                                 serial),
                     count |-> acc.count + 1])
    IN  at(Name_parse(num \o <<".">> \o zones.asn))

RECURSIVE asn_entries(_, _, _, _, _)
asn_entries(acc, asns, i, zones, serial) ==
    LET then(next) ==
            IF ~next.ok THEN next
            ELSE asn_entries(next.val, asns, i + 1, zones, serial)
    IN  IF i > Len(asns) THEN Ok(acc)
        ELSE then(asn_entry(acc, asns[i], zones, serial))

\* Ok([asn, count]) or Err.
populate_asn_records(asn, snapshot, zones, serial) ==
    asn_entries([asn |-> asn, count |-> 0], snapshot.blocked_asns, 1, zones, serial)

parse_name(zone) ==
    LET of(name) == IF name.ok THEN name ELSE Err("Zone")
    IN  of(Name_parse(zone))

\* create_zone(&parse_name(zone)?, serial)?
ZoneFor(zone, serial) ==
    LET of(origin) == IF ~origin.ok THEN origin ELSE create_zone(origin.val, serial)
    IN  of(parse_name(zone))

\* build_zones, lines 59-63: the five zones, each with its SOA.
\* Ok([blocklist, reputation, geo, asn, signal]) or the first Err.
CreateZones(zones, serial) ==
    LET all(blocklist, reputation, geo, asn, signal) ==
            IF ~blocklist.ok \/ ~reputation.ok \/ ~geo.ok \/ ~asn.ok \/ ~signal.ok
            THEN Err("Zone")
            ELSE Ok([blocklist |-> blocklist.val, reputation |-> reputation.val,
                     geo |-> geo.val, asn |-> asn.val, signal |-> signal.val])
    IN  all(ZoneFor(zones.blocklist, serial), ZoneFor(zones.reputation, serial),
            ZoneFor(zones.geo, serial), ZoneFor(zones.asn, serial),
            ZoneFor(zones.signal, serial))

\* build_zones, lines 71-88: the signal record of the count, and the result.
PublishSignal(created, ips, geos, asns, zones, serial, now) ==
    LET entry_count == ips.count + geos.count + asns.count
        signal_data == SignalData_new(serial, entry_count, now)
        done(signalled) ==
            IF ~signalled.ok THEN Err("Zone")
            ELSE Ok([blocklist |-> ips.blocklist,
                     reputation |-> ips.reputation,
                     geo |-> geos.geo,
                     asn |-> asns.asn,
                     signal |-> signalled.val,
                     serial |-> serial,
                     entry_count |-> entry_count])
    IN  done(insert_signal_record(created.signal, zones.signal,
                                  SignalData_to_txt(signal_data), serial))

\* build_zones, line 69 and what follows it.
PopulateAsns(created, ips, geos, snapshot, zones, serial, now) ==
    LET then(asns) ==
            IF ~asns.ok THEN Err("Zone")
            ELSE PublishSignal(created, ips, geos, asns.val, zones, serial, now)
    IN  then(populate_asn_records(created.asn, snapshot, zones, serial))

\* build_zones, line 68 and what follows it.
PopulateGeo(created, ips, snapshot, zones, serial, now) ==
    LET then(geos) ==
            IF ~geos.ok THEN Err("Zone")
            ELSE PopulateAsns(created, ips, geos.val, snapshot, zones, serial, now)
    IN  then(populate_geo_records(created.geo, snapshot, zones, serial))

\* build_zones, line 67 and what follows it.
PopulateIps(created, snapshot, zones, serial, now) ==
    LET then(ips) ==
            IF ~ips.ok THEN Err("Zone")
            ELSE PopulateGeo(created, ips.val, snapshot, zones, serial, now)
    IN  then(populate_ip_records(created.blocklist, created.reputation,
                                 snapshot, zones, serial))

\* build_zones(snapshot, zones, serial), Utc::now() being now: Ok(BuiltZones)
\* or the first Err.
build_zones(snapshot, zones, serial, now) ==
    LET then(created) ==
            IF ~created.ok THEN Err("Zone")
            ELSE PopulateIps(created.val, snapshot, zones, serial, now)
    IN  then(CreateZones(zones, serial))

(***************************************************************************)
(* sync/collector.rs                                                       *)
(***************************************************************************)
\* The state file as load_snapshot meets it: absent, or present and
\* unreadable, or present with a text that serde_json reads or rejects. A
\* text that is JSON is the object it denotes: its members, each an array
\* of strings (strings, items) or a value of another type.
StateFileFields ==
    {"blocked_countries", "blocked_countries_outbound", "blocked_ips",
     "blocked_asns", "whitelisted_ips"}

\* The same with unknown members refused (deny_unknown_fields).
StateFile_from_json_deny_unknown(json) ==
    IF ~json.well_formed THEN Err("Json")
    ELSE IF DOMAIN json.members \ StateFileFields # {} THEN Err("Json")
    ELSE IF \E f \in DOMAIN json.members \cap StateFileFields :
                ~json.members[f].strings
         THEN Err("Json")
    ELSE Ok([f \in StateFileFields |->
                IF f \in DOMAIN json.members THEN json.members[f].items
                ELSE <<>>])

\* serde_json::from_str::<StateFile>: every field #[serde(default)], unknown
\* members ignored, a member of the wrong type an error.
StateFile_from_json(json) ==
    IF ~json.well_formed THEN Err("Json")
    ELSE IF \E f \in DOMAIN json.members \cap StateFileFields :
                ~json.members[f].strings
         THEN Err("Json")
    ELSE Ok([f \in StateFileFields |->
                IF f \in DOMAIN json.members THEN json.members[f].items
                ELSE <<>>])

\* load_snapshot that takes a file it cannot use for an empty state.
load_snapshot_lenient(file) ==
    LET of(state) ==
            IF ~state.ok THEN Ok(DefenseSnapshot_default)
            ELSE Ok([blocked_ips |-> state.val.blocked_ips,
                     blocked_countries |-> state.val.blocked_countries,
                     blocked_countries_outbound |->
                         state.val.blocked_countries_outbound,
                     blocked_asns |-> state.val.blocked_asns,
                     whitelisted_ips |-> state.val.whitelisted_ips])
    IN  IF ~file.exists \/ ~file.readable THEN Ok(DefenseSnapshot_default)
        ELSE of(StateFile_from_json(file.json))

load_snapshot(file) ==
    LET of(state) ==
            IF ~state.ok THEN Err("State")
            ELSE Ok([blocked_ips |-> state.val.blocked_ips,
                     blocked_countries |-> state.val.blocked_countries,
                     blocked_countries_outbound |->
                         state.val.blocked_countries_outbound,
                     blocked_asns |-> state.val.blocked_asns,
                     whitelisted_ips |-> state.val.whitelisted_ips])
    IN  IF ~file.exists THEN Ok(DefenseSnapshot_default)
        ELSE IF ~file.readable THEN Err("State")
        ELSE of(StateFile_from_json(file.json))

(***************************************************************************)
(* server.rs                                                               *)
(***************************************************************************)
\* Catalog::upsert(origin, authorities) for each of the five zones.
build_catalog(zones) ==
    MapInsert(
        MapInsert(
            MapInsert(
                MapInsert(
                    MapInsert(EmptyMap, zones.blocklist.origin, zones.blocklist),
                    zones.reputation.origin, zones.reputation),
                zones.geo.origin, zones.geo),
            zones.asn.origin, zones.asn),
        zones.signal.origin, zones.signal)

\* Utc::now().format("%Y%m%d01")
SerialText(now) ==
    PadDec(now.year, 4) \o PadDec(now.month, 2) \o PadDec(now.day, 2)
        \o <<"0", "1">>

\* run(config, snapshot) up to the point where it serves, Utc::now() being
\* now and bound telling whether the sockets could be bound:
\* Ok([catalog, signal]) or the Err that ends it.
run(zones, snapshot, now, bound) ==
    LET serve(serial, built) ==
            IF ~built.ok THEN built
            ELSE IF ~bound THEN Err("Server")
            ELSE Ok([catalog |-> build_catalog(built.val),
                     signal |-> SignalData_new(serial, built.val.entry_count, now)])
        build(serial) ==
            IF ~serial.some THEN Err("Zone")
            ELSE serve(serial.val, build_zones(snapshot, zones, serial.val, now))
    IN  build(ParseU32(SerialText(now)))

\* Whether labels end with suffix.
EndsWithLabels(labels, suffix) ==
    /\ Len(suffix) <= Len(labels)
    /\ SubSeq(labels, Len(labels) - Len(suffix) + 1, Len(labels)) = suffix

\* Catalog::find: the zones whose origin the name is under.
ZonesOver(catalog, name) ==
    {o \in DOMAIN catalog : EndsWithLabels(name.labels, o.labels)}

\* The response of the catalog to a question [name, rtype]: REFUSED outside
\* every zone; the records at the name and type; the empty NOERROR answer at
\* a name that holds other types and NXDOMAIN elsewhere, both with the SOA.
\* serial is the serial of the SOA of the zone that answered.
Response(catalog, question) ==
    LET name == Name_parse(question.name).val
        over == ZonesOver(catalog, name)
        origin == CHOOSE o \in over :
                      \A other \in over : Len(other.labels) <= Len(o.labels)
        zone == catalog[origin]
        answers == RecordsAt(zone, name, question.rtype)
        soa == RecordsAt(zone, zone.origin, "SOA")
    IN  IF over = {}
        THEN [rcode |-> "REFUSED", answers |-> <<>>, serial |-> 0]
        ELSE [rcode |-> IF answers # <<>> THEN "NOERROR"
                        ELSE IF \E rs \in zone.rrsets : rs.name = name
                             THEN "NOERROR" ELSE "NXDOMAIN",
              answers |-> answers,
              serial |-> soa[1].rdata.serial]

(***************************************************************************)
(* The periodic reload                                                     *)
(***************************************************************************)
SameUtcDay(a, b) == a.year = b.year /\ a.month = b.month /\ a.day = b.day

\* The signal of the next catalog: the serial bumped within the UTC day of
\* the last one, the base serial of the new day after a date change.
NextSignal(signal, entries, now) ==
    IF SameUtcDay(signal.updated, now)
    THEN SignalData_bump(signal, entries, now)
    ELSE SignalData_new(ParseU32(SerialText(now)).val, entries, now)

\* One reload: the snapshot is loaded from the state file and the zones are
\* rebuilt under the next serial. Ok([catalog, signal]) to swap in, or the
\* Err that ends the reload.
reload(zones, file, signal, now) ==
    LET swap(built, serial) ==
            IF ~built.ok THEN built
            ELSE Ok([catalog |-> build_catalog(built.val),
                     signal |-> NextSignal(signal, built.val.entry_count, now)])
        rebuild(snapshot, serial) ==
            swap(build_zones(snapshot, zones, serial, now), serial)
        with(loaded) ==
            IF ~loaded.ok THEN loaded
            ELSE rebuild(loaded.val, NextSignal(signal, signal.entries, now).serial)
    IN  with(load_snapshot(file))

(***************************************************************************)
(* SHA-256 (ring::digest), as i1-audit/src/hash.rs calls it                 *)
(***************************************************************************)
\* A 32-bit word is the sequence of its bits, the lowest first; a half is 16
\* bits as a number.  Bits(f) is f as a sequence, each bit computed once.
Bits(f) == SubSeq(f, 1, 32)

Word(hi, lo) ==
    Bits([i \in 1..32 |-> IF i <= 16 THEN (lo \div (2 ^ (i - 1))) % 2
                          ELSE (hi \div (2 ^ (i - 17))) % 2])

\* The first 32 bits of the fractional parts of the cube roots of the first
\* 64 primes, and of the square roots of the first 8, as halves.
SHA256_K ==
    <<
       <<17034, 12184>>, <<28983, 17553>>, <<46528, 64463>>, <<59829, 56229>>,
       <<14678, 49755>>, <<23025, 4593>>, <<37439, 33444>>, <<43804, 24277>>,
       <<55303, 43672>>, <<4739, 23297>>, <<9265, 34238>>, <<21772, 32195>>,
       <<29374, 23924>>, <<32990, 45566>>, <<39900, 1703>>, <<49563, 61812>>,
       <<58523, 27073>>, <<61374, 18310>>, <<4033, 40390>>, <<9228, 41420>>,
       <<11753, 11375>>, <<19060, 33962>>, <<23728, 43484>>, <<30457, 35034>>,
       <<38974, 20818>>, <<43057, 50797>>, <<45059, 10184>>, <<48985, 32711>>,
       <<50912, 3059>>, <<54695, 37191>>, <<1738, 25425>>, <<5161, 10599>>,
       <<10167, 2693>>, <<11803, 8504>>, <<19756, 28156>>, <<21304, 3347>>,
       <<25866, 29524>>, <<30314, 2747>>, <<33218, 51502>>, <<37490, 11397>>,
       <<41663, 59553>>, <<43034, 26187>>, <<49739, 35696>>, <<51052, 20899>>,
       <<53650, 59417>>, <<54937, 1572>>, <<62478, 13701>>, <<4202, 41072>>,
       <<6564, 49430>>, <<7735, 27656>>, <<10056, 30540>>, <<13488, 48309>>,
       <<14620, 3251>>, <<20184, 43594>>, <<23452, 51791>>, <<26670, 28659>>,
       <<29839, 33518>>, <<30885, 25455>>, <<33992, 30740>>, <<36039, 520>>,
       <<37054, 65530>>, <<42064, 27883>>, <<48889, 41975>>, <<50801, 30962>> >>

SHA256_H0 ==
    <<
       <<27145, 58983>>, <<47975, 44677>>, <<15470, 62322>>, <<42319, 62778>>,
       <<20750, 21119>>, <<39685, 26764>>, <<8067, 55723>>, <<23520, 52505>> >>

rotr(x, n) == SubSeq(x, n + 1, 32) \o SubSeq(x, 1, n)
shr(x, n) == SubSeq(x, n + 1, 32) \o [i \in 1..n |-> 0]
Xor3(a, b, c) == Bits([i \in 1..32 |-> (a[i] + b[i] + c[i]) % 2])
Ch(e, f, g) == Bits([i \in 1..32 |-> IF e[i] = 1 THEN f[i] ELSE g[i]])
Maj(a, b, c) == Bits([i \in 1..32 |-> IF a[i] + b[i] + c[i] >= 2 THEN 1 ELSE 0])
BigSigma0(a) == Xor3(rotr(a, 2), rotr(a, 13), rotr(a, 22))
BigSigma1(e) == Xor3(rotr(e, 6), rotr(e, 11), rotr(e, 25))
SmallSigma0(x) == Xor3(rotr(x, 7), rotr(x, 18), shr(x, 3))
SmallSigma1(x) == Xor3(rotr(x, 17), rotr(x, 19), shr(x, 10))

\* The 16 bits of a word from the given one on, as a number.
Half(x, from) ==
    x[from] + 2 * x[from + 1] + 4 * x[from + 2] + 8 * x[from + 3]
        + 16 * x[from + 4] + 32 * x[from + 5] + 64 * x[from + 6]
        + 128 * x[from + 7] + 256 * x[from + 8] + 512 * x[from + 9]
        + 1024 * x[from + 10] + 2048 * x[from + 11] + 4096 * x[from + 12]
        + 8192 * x[from + 13] + 16384 * x[from + 14] + 32768 * x[from + 15]

RECURSIVE SumHalves(_, _, _)
SumHalves(ws, from, k) ==
    IF k = 0 THEN 0 ELSE Half(ws[k], from) + SumHalves(ws, from, k - 1)

\* wrapping_add of the words ws: the low halves, then the high halves with
\* the carry, modulo 2^32.
WrappingAdd(ws) ==
    LET with(low) ==
            Word((SumHalves(ws, 17, Len(ws)) + low \div 65536) % 65536, low % 65536)
    IN  with(SumHalves(ws, 1, Len(ws)))

\* The message schedule up to n words: w[1..16] the block, the rest derived.
RECURSIVE ScheduleTo(_, _)
ScheduleTo(w, n) ==
    IF Len(w) >= n THEN w
    ELSE IF Len(w) = n - 1
    THEN Append(w, WrappingAdd(<<SmallSigma1(w[n - 2]), w[n - 7],
                                 SmallSigma0(w[n - 15]), w[n - 16]>>))
    ELSE ScheduleTo(ScheduleTo(w, (Len(w) + n) \div 2), n)

Schedule(w) == ScheduleTo(w, 64)

\* One round over the working words v = <<a, ..., h>>.
Round(v, w, t) ==
    LET k == Word(SHA256_K[t][1], SHA256_K[t][2])
        step(t1, t2) ==
            <<WrappingAdd(t1 \o t2), v[1], v[2], v[3],
              WrappingAdd(<<v[4]>> \o t1), v[5], v[6], v[7]>>
    IN  step(<<v[8], BigSigma1(v[5]), Ch(v[5], v[6], v[7]), k, w[t]>>,
             <<BigSigma0(v[1]), Maj(v[1], v[2], v[3])>>)

\* The rounds from the t-th to the last-th, one after the other.
RECURSIVE Rounds(_, _, _, _)
Rounds(v, w, t, last) ==
    IF Len(v) # 8 \/ t > last THEN v
    ELSE IF t = last THEN Round(v, w, t)
    ELSE Rounds(Rounds(v, w, t, (t + last) \div 2), w, (t + last) \div 2 + 1, last)

Compress(h, block) ==
    LET of(v) == [i \in 1..8 |-> WrappingAdd(<<h[i], v[i]>>)] \o <<>>
        with(w) == of(Rounds(h, w, 1, 64))
    IN  with(Schedule(block))

\* The message as bytes, padded: 0x80, zeros up to 56 modulo 64, and the
\* length in bits as 64 bits (the messages of the model are below 2^16 bits).
Padded(bytes) ==
    LET n == Len(bytes)
        zeros == (119 - n) % 64
        bits == 8 * n
    IN  bytes \o <<128>> \o [i \in 1..zeros |-> 0]
            \o <<0, 0, 0, 0, 0, 0, bits \div 256, bits % 256>>

BlockOf(p, b) ==
    [j \in 1..16 |->
        Word(p[64 * b + 4 * j - 3] * 256 + p[64 * b + 4 * j - 2],
             p[64 * b + 4 * j - 1] * 256 + p[64 * b + 4 * j])] \o <<>>

RECURSIVE Blocks(_, _, _)
Blocks(h, p, b) ==
    IF Len(h) # 8 \/ 64 * b >= Len(p) THEN h
    ELSE Blocks(Compress(h, BlockOf(p, b)), p, b + 1)

HexDigits == <<"0", "1", "2", "3", "4", "5", "6", "7", "8", "9", "a", "b", "c", "d", "e", "f">>

\* hex::encode of the eight words, highest byte first.
HexOfWords(h) ==
    [n \in 1..64 |->
        LET x == h[((n - 1) \div 8) + 1]
            lowest == 29 - 4 * ((n - 1) % 8)
        IN  HexDigits[x[lowest] + 2 * x[lowest + 1] + 4 * x[lowest + 2]
                        + 8 * x[lowest + 3] + 1]] \o <<>>

\* SHA-256 of a sequence of byte values, as 64 hex characters.
Sha256Hex(bytes) ==
    LET of(padded) ==
            HexOfWords(Blocks([i \in 1..8 |-> Word(SHA256_H0[i][1], SHA256_H0[i][2])] \o <<>>,
                              padded, 0))
    IN  of(Padded(bytes))

(***************************************************************************)
(* i1-audit: hash.rs and verify.rs                                          *)
(***************************************************************************)
\* The byte of a character (the texts of the model are ASCII).
ByteOf(c) ==
    IF IsDigit(c) THEN 48 + DigitVal(c)
    ELSE IF \E i \in 1..26 : LowerCase[i] = c
    THEN 96 + (CHOOSE i \in 1..26 : LowerCase[i] = c)
    ELSE IF \E i \in 1..26 : UpperCase[i] = c
    THEN 64 + (CHOOSE i \in 1..26 : UpperCase[i] = c)
    ELSE CASE c = " " -> 32 [] c = "&" -> 38 [] c = "+" -> 43 [] c = "," -> 44
           [] c = "-" -> 45 [] c = "." -> 46 [] c = "/" -> 47 [] c = ":" -> 58
           [] c = ";" -> 59 [] c = "=" -> 61 [] c = "?" -> 63 [] c = "_" -> 95
           [] c = "|" -> 124

\* sha256_bytes(data): the lowercase hex of the SHA-256 of the bytes.
sha256_bytes(data) == Sha256Hex([i \in 1..Len(data) |-> ByteOf(data[i])])

\* str's Ord: byte by byte, a prefix first.
RECURSIVE BytesLess(_, _)
BytesLess(a, b) ==
    IF b = <<>> THEN FALSE
    ELSE IF a = <<>> THEN TRUE
    ELSE IF a[1] = b[1] THEN BytesLess(Tail(a), Tail(b))
    ELSE ByteOf(a[1]) < ByteOf(b[1])

\* [&str]::sort_unstable(): the strings in ascending order, repeats kept.
RECURSIVE sort_unstable(_)
sort_unstable(strs) ==
    IF strs = <<>> THEN <<>>
    ELSE LET i == CHOOSE k \in 1..Len(strs) :
                      \A j \in 1..Len(strs) : ~BytesLess(strs[j], strs[k])
         IN  <<strs[i]>> \o sort_unstable(SubSeq(strs, 1, i - 1)
                                            \o SubSeq(strs, i + 1, Len(strs)))

\* The same bytes with the two lists taken in the order of the snapshot.
trust_material_unsorted(snapshot) ==
    LET bin_hashes ==
            [i \in 1..Len(snapshot.binaries) |-> snapshot.binaries[i].sha256]
        cert_fps ==
            [i \in 1..Len(snapshot.root_certs) |-> snapshot.root_certs[i].fingerprint]
    IN  snapshot.node_id \o <<"|">>
            \o FormatDec(Len(bin_hashes)) \o <<"|">> \o Concat(bin_hashes) \o <<"|">>
            \o FormatDec(Len(cert_fps)) \o <<"|">> \o Concat(cert_fps)

\* The bytes compute_trust_digest collects before it hashes them.
trust_material(snapshot) ==
    LET bin_hashes ==
            sort_unstable([i \in 1..Len(snapshot.binaries) |-> snapshot.binaries[i].sha256])
        cert_fps ==
            sort_unstable([i \in 1..Len(snapshot.root_certs) |->
                              snapshot.root_certs[i].fingerprint])
    IN  snapshot.node_id \o <<"|">>
            \o FormatDec(Len(bin_hashes)) \o <<"|">> \o Concat(bin_hashes) \o <<"|">>
            \o FormatDec(Len(cert_fps)) \o <<"|">> \o Concat(cert_fps)

compute_trust_digest(snapshot) == sha256_bytes(trust_material(snapshot))

\* verify.rs: SIGNAL_TTL (the name of ttl_policy.rs's constant is taken).
VERIFY_SIGNAL_TTL == 60

\* A tenth of the expected TTL as the acceptable drift.
MAX_TTL_DRIFT_tenth == VERIFY_SIGNAL_TTL \div 10

MAX_TTL_DRIFT == 10

\* VerifyToken::signal_dns_name(node_prefix)
VerifyToken_signal_dns_name(node_prefix) == node_prefix \o <<".", "s", "i", "g", ".", "i", "1", ".", "i", "s", ".">>

\* VerifyToken::verification_url(&self)
VerifyToken_verification_url(token) ==
    <<"h", "t", "t", "p", "s", ":", "/", "/", "i", "1", ".", "i", "s", "/", "v", "e", "r", "i", "f", "y", "?", "n", "=">> \o token.node_prefix \o <<"&", "d", "=">> \o token.digest
        \o <<"&", "t", "t", "l", "=">> \o FormatDec(token.expected_ttl)
        \o <<"&", "t", "s", "=">> \o FormatDec(token.generated_at)

\* build_signal_txt(snapshot, digest), Utc::now().timestamp() being now.
build_signal_txt(snapshot, digest, now) ==
    <<"d", "i", "g", "e", "s", "t", "=">> \o digest \o <<";", "t", "s", "=">> \o FormatDec(now)
        \o <<";", "b", "i", "n", "s", "=">> \o FormatDec(Len(snapshot.binaries))
        \o <<";", "c", "e", "r", "t", "s", "=">> \o FormatDec(Len(snapshot.root_certs))

\* generate_verify_token(snapshot): the clock is read in build_signal_txt
\* (now_txt) and once more for generated_at (now_token).
generate_verify_token(snapshot, now_txt, now_token) ==
    LET of(digest) ==
            [dns_name |-> VerifyToken_signal_dns_name(SubSeq(digest, 1, 12)),
             expected_value |-> build_signal_txt(snapshot, digest, now_txt),
             expected_ttl |-> VERIFY_SIGNAL_TTL,
             generated_at |-> now_token,
             node_prefix |-> SubSeq(digest, 1, 12),
             digest |-> digest]
    IN  of(compute_trust_digest(snapshot))

\* u32::abs_diff
AbsDiff(a, b) == IF a >= b THEN a - b ELSE b - a

\* The verdict taxonomy: the observed TXT value (None when the record is
\* absent) and TTL against the expected ones.
VerdictOf(value_match, ttl_ok, observed_value) ==
    IF ~observed_value.some THEN "NotPublished"
    ELSE IF value_match THEN (IF ttl_ok THEN "Ok" ELSE "StaleCache")
    ELSE (IF ttl_ok THEN "Tampered" ELSE "Compromised")

\* The VerifyResult of an observation.
verify(expected_value, expected_ttl, observed_value, observed_ttl) ==
    LET value_match == observed_value.some /\ observed_value.val = expected_value
        ttl_drift == IF observed_ttl.some
                     THEN Some(AbsDiff(observed_ttl.val, expected_ttl)) ELSE NoneNum
        ttl_ok == ttl_drift.some /\ ttl_drift.val <= MAX_TTL_DRIFT
    IN  [value_match |-> value_match,
         expected_value |-> expected_value,
         observed_value |-> observed_value,
         expected_ttl |-> expected_ttl,
         observed_ttl |-> observed_ttl,
         ttl_drift |-> ttl_drift,
         ttl_ok |-> ttl_ok,
         verdict |-> VerdictOf(value_match, ttl_ok, observed_value)]

(***************************************************************************)
(* i1-audit: encoding/dns_names.rs and consensus/query.rs                   *)
(***************************************************************************)
BIN_ZONE == <<"b", "i", "n", ".", "i", "1", ".", "i", "s", ".">>
CA_ZONE == <<"c", "a", ".", "i", "1", ".", "i", "s", ".">>
HASH_PREFIX_LEN == 12

\* &s[..HASH_PREFIX_LEN.min(s.len())]
HashPrefix(s) ==
    SubSeq(s, 1, IF HASH_PREFIX_LEN <= Len(s) THEN HASH_PREFIX_LEN ELSE Len(s))

binary_dns_name(sha256) == HashPrefix(sha256) \o <<".">> \o BIN_ZONE

cert_dns_name(fingerprint) == HashPrefix(fingerprint) \o <<".">> \o CA_ZONE

\* str::trim, the white space of the model being the space.
RECURSIVE str_trim(_)
str_trim(s) ==
    IF s = <<>> THEN s
    ELSE IF s[1] = " " THEN str_trim(Tail(s))
    ELSE IF s[Len(s)] = " " THEN str_trim(SubSeq(s, 1, Len(s) - 1))
    ELSE s

\* parse_field(txt, key): the value of the first part that starts with
\* key=, parsed as u32.
RECURSIVE parse_field_parts(_, _, _)
parse_field_parts(parts, prefix, i) ==
    IF i > Len(parts) THEN NoneNum
    ELSE LET val == strip_prefix(str_trim(parts[i]), prefix)
         IN  IF val.some THEN ParseU32(val.val)
             ELSE parse_field_parts(parts, prefix, i + 1)

parse_field(txt, key) == parse_field_parts(Split(txt, ";"), key \o <<"=">>, 1)

\* TXT's Display (record.to_string()): its character strings one after the other.
TXT_to_string(record) == Concat(record)

NotFound(hash) ==
    [hash |-> hash, found |-> FALSE, node_count |-> 0, network_trust |-> NoneNum]

\* query_txt_record that hands the resolver's error on as DnsQuery.
query_txt_record_strict(lookup, hash) ==
    IF lookup.ok
    THEN IF lookup.val = <<>> THEN Ok(NotFound(hash))
         ELSE LET txt == TXT_to_string(lookup.val[1])
                  nodes == parse_field(txt, <<"n", "o", "d", "e", "s">>)
              IN  Ok([hash |-> hash, found |-> TRUE,
                      node_count |-> IF nodes.some THEN nodes.val ELSE 0,
                      network_trust |-> parse_field(txt, <<"t", "r", "u", "s", "t">>)])
    ELSE Err("DnsQuery")

\* query_txt_record(resolver, dns_name, hash), lookup being what
\* resolver.txt_lookup(dns_name) gives: Ok(records) or Err.
query_txt_record(lookup, hash) ==
    IF lookup.ok
    THEN IF lookup.val = <<>> THEN Ok(NotFound(hash))
         ELSE LET txt == TXT_to_string(lookup.val[1])
                  nodes == parse_field(txt, <<"n", "o", "d", "e", "s">>)
              IN  Ok([hash |-> hash, found |-> TRUE,
                      node_count |-> IF nodes.some THEN nodes.val ELSE 0,
                      network_trust |-> parse_field(txt, <<"t", "r", "u", "s", "t">>)])
    ELSE Ok(NotFound(hash))

(***************************************************************************)
(* f64                                                                      *)
(***************************************************************************)
\* An f64 is NaN, an infinity (m is its sign) or a finite value m * 10^e
\* with m not divisible by 10; zero is m = 0, e = 0.  The arithmetic below
\* is exact on these decimals, overflows to an infinity above the decimal
\* exponent 308 (f64::MAX_10_EXP) and lets an addend more than 17 digits
\* below the other vanish, as the 53-bit significand does.
F64_NAN == [kind |-> "nan", m |-> 0, e |-> 0]
F64_INFINITY == [kind |-> "inf", m |-> 1, e |-> 0]
F64_NEG_INFINITY == [kind |-> "inf", m |-> -1, e |-> 0]

Sign(n) == IF n < 0 THEN -1 ELSE IF n > 0 THEN 1 ELSE 0

RECURSIVE Pow10(_)
Pow10(k) == IF k = 0 THEN 1 ELSE 10 * Pow10(k - 1)

\* The decimal exponent of the leading digit of m * 10^e.
Magnitude(m, e) == Len(FormatDec(m * Sign(m))) + e - 1

\* The f64 of m * 10^e.
RECURSIVE Dec(_, _)
Dec(m, e) ==
    IF m = 0 THEN [kind |-> "fin", m |-> 0, e |-> 0]
    ELSE IF m % 10 = 0 THEN Dec(m \div 10, e + 1)
    ELSE IF Magnitude(m, e) > 308 THEN [kind |-> "inf", m |-> Sign(m), e |-> 0]
    ELSE [kind |-> "fin", m |-> m, e |-> e]

is_finite(x) == x.kind = "fin"
is_nan(x) == x.kind = "nan"

F64Neg(x) == [x EXCEPT !.m = -x.m]

\* a * b
F64Mul(a, b) ==
    IF is_nan(a) \/ is_nan(b) THEN F64_NAN
    ELSE IF ~is_finite(a) \/ ~is_finite(b)
         THEN (IF a.m = 0 \/ b.m = 0 THEN F64_NAN
               ELSE [kind |-> "inf", m |-> Sign(a.m) * Sign(b.m), e |-> 0])
    ELSE Dec(a.m * b.m, a.e + b.e)

\* a + b
F64Add(a, b) ==
    IF is_nan(a) \/ is_nan(b) THEN F64_NAN
    ELSE IF ~is_finite(a) /\ ~is_finite(b)
         THEN (IF a.m = b.m THEN a ELSE F64_NAN)
    ELSE IF ~is_finite(a) THEN a
    ELSE IF ~is_finite(b) THEN b
    ELSE IF a.m = 0 THEN b
    ELSE IF b.m = 0 THEN a
    ELSE IF Magnitude(a.m, a.e) - Magnitude(b.m, b.e) > 17 THEN a
    ELSE IF Magnitude(b.m, b.e) - Magnitude(a.m, a.e) > 17 THEN b
    ELSE LET low == IF a.e < b.e THEN a.e ELSE b.e
         IN  Dec(a.m * Pow10(a.e - low) + b.m * Pow10(b.e - low), low)

\* a < b; false when either is NaN.
F64Lt(a, b) ==
    /\ ~is_nan(a)
    /\ ~is_nan(b)
    /\ a # b
    /\ F64Add(a, F64Neg(b)).m < 0

F64Le(a, b) == ~is_nan(a) /\ ~is_nan(b) /\ (a = b \/ F64Lt(a, b))

\* f64::clamp(min, max): NaN stays NaN.
clamp(x, min, max) ==
    IF F64Lt(x, min) THEN min ELSE IF F64Lt(max, x) THEN max ELSE x

F64_ZERO == Dec(0, 0)
F64_ONE == Dec(1, 0)

(***************************************************************************)
(* i1-audit: types/trust.rs, scoring/weights.rs and scoring/cert_trust.rs   *)
(***************************************************************************)
TrustWeights(hash_consensus, age_factor, identity_stability, usage_normality, provenance_score) ==
    [hash_consensus |-> hash_consensus, age_factor |-> age_factor,
     identity_stability |-> identity_stability,
     usage_normality |-> usage_normality, provenance_score |-> provenance_score]

TrustWeights_default ==
    TrustWeights(Dec(40, -2), Dec(15, -2), Dec(15, -2), Dec(15, -2), Dec(15, -2))

offline_weights ==
    TrustWeights(F64_ZERO, Dec(30, -2), Dec(25, -2), Dec(25, -2), Dec(20, -2))

paranoid_weights ==
    TrustWeights(Dec(50, -2), Dec(10, -2), Dec(15, -2), Dec(10, -2), Dec(15, -2))

\* TrustScore::compute
TrustScore_compute(hash_consensus, age_factor, identity_stability, usage_normality, provenance_score, weights) ==
    LET total ==
            F64Add(F64Add(F64Add(F64Add(
                F64Mul(hash_consensus, weights.hash_consensus),
                F64Mul(age_factor, weights.age_factor)),
                F64Mul(identity_stability, weights.identity_stability)),
                F64Mul(usage_normality, weights.usage_normality)),
                F64Mul(provenance_score, weights.provenance_score))
    IN  [total |-> clamp(total, F64_ZERO, F64_ONE),
         hash_consensus |-> hash_consensus, age_factor |-> age_factor,
         identity_stability |-> identity_stability,
         usage_normality |-> usage_normality,
         provenance_score |-> provenance_score]

KNOWN_CAS ==
    << <<"d", "i", "g", "i", "c", "e", "r", "t">>,
       <<"l", "e", "t", "'", "s", " ", "e", "n", "c", "r", "y", "p", "t">>,
       <<"i", "s", "r", "g">>,
       <<"c", "o", "m", "o", "d", "o">>,
       <<"s", "e", "c", "t", "i", "g", "o">>,
       <<"g", "l", "o", "b", "a", "l", "s", "i", "g", "n">>,
       <<"e", "n", "t", "r", "u", "s", "t">>,
       <<"g", "o", "d", "a", "d", "d", "y">>,
       <<"v", "e", "r", "i", "s", "i", "g", "n">>,
       <<"t", "h", "a", "w", "t", "e">>,
       <<"g", "e", "o", "t", "r", "u", "s", "t">>,
       <<"r", "a", "p", "i", "d", "s", "s", "l">>,
       <<"a", "m", "a", "z", "o", "n">>,
       <<"g", "o", "o", "g", "l", "e", " ", "t", "r", "u", "s", "t">>,
       <<"m", "i", "c", "r", "o", "s", "o", "f", "t">>,
       <<"a", "p", "p", "l", "e">>,
       <<"m", "o", "z", "i", "l", "l", "a">>,
       <<"b", "a", "l", "t", "i", "m", "o", "r", "e">>,
       <<"u", "s", "e", "r", "t", "r", "u", "s", "t">>,
       <<"s", "t", "a", "r", "f", "i", "e", "l", "d">>,
       <<"c", "e", "r", "t", "u", "m">>,
       <<"b", "u", "y", "p", "a", "s", "s">>,
       <<"a", "c", "t", "a", "l", "i", "s">>,
       <<"t", "-", "t", "e", "l", "e", "s", "e", "c">>,
       <<"d", "-", "t", "r", "u", "s", "t">>,
       <<"q", "u", "o", "v", "a", "d", "i", "s">>,
       <<"s", "s", "l", ".", "c", "o", "m">>,
       <<"t", "r", "u", "s", "t", "w", "a", "v", "e">> >>

\* str::to_lowercase on ASCII text.
to_lowercase(s) == ToLower(s)

\* str::contains(&str)
ContainsStr(s, p) ==
    \E i \in 0..(Len(s) - Len(p)) : SubSeq(s, i + 1, i + Len(p)) = p

is_known_issuer(issuer) ==
    LET issuer_lower == to_lowercase(issuer)
    IN  \E k \in 1..Len(KNOWN_CAS) : ContainsStr(issuer_lower, KNOWN_CAS[k])

\* score_cert; the certificate is read for expired and issuer only.
score_cert(cert) ==
    LET validity_ok == ~cert.expired
        known_issuer == is_known_issuer(cert.issuer)
        valid == IF validity_ok THEN F64Add(F64_ZERO, Dec(3, -1)) ELSE F64_ZERO
        score == IF known_issuer THEN F64Add(valid, Dec(3, -1)) ELSE valid
        network_consensus == F64_ZERO
    IN  [score |-> clamp(F64Add(score, network_consensus), F64_ZERO, F64_ONE),
         network_consensus |-> network_consensus, validity_ok |-> validity_ok,
         known_issuer |-> known_issuer]

(***************************************************************************)
(* i1-audit: discovery/binaries.rs, scoring/binary_trust.rs, snapshot, lib.rs*)
(***************************************************************************)
\* One turn of the outer loop of correlate_processes: the binaries after a
\* process.
correlate_process(binaries, proc) ==
    IF ~proc.exe_path.some THEN binaries
    ELSE [i \in 1..Len(binaries) |->
             IF binaries[i].path = proc.exe_path.val
             THEN [binaries[i] EXCEPT
                      !.running = TRUE,
                      !.process_names =
                          IF SeqContains(@, proc.name) THEN @
                          ELSE Append(@, proc.name)]
             ELSE binaries[i]]

\* correlate_processes that pushes the name of every matching process.
RECURSIVE correlate_processes_pushing_every_name(_, _)
correlate_processes_pushing_every_name(binaries, processes) ==
    LET pushed(proc) ==
            IF ~proc.exe_path.some THEN binaries
            ELSE [i \in 1..Len(binaries) |->
                     IF binaries[i].path = proc.exe_path.val
                     THEN [binaries[i] EXCEPT
                              !.running = TRUE,
                              !.process_names = Append(@, proc.name)]
                     ELSE binaries[i]]
    IN  IF processes = <<>> THEN binaries
        ELSE correlate_processes_pushing_every_name(pushed(Head(processes)),
                                                    Tail(processes))

RECURSIVE correlate_processes(_, _)
correlate_processes(binaries, processes) ==
    IF processes = <<>> THEN binaries
    ELSE correlate_processes(correlate_process(binaries, Head(processes)),
                             Tail(processes))

\* 1 / (1 + exp(-0.05 * (age_days - 30))) to six decimals, for the ages of
\* the binaries below.
Sigmoid ==
    [age_days \in {0, 30, 365} |->
        CASE age_days = 0 -> Dec(182426, -6)
          [] age_days = 30 -> Dec(5, -1)
          [] age_days = 365 -> Dec(1, 0)]

\* compute_age_factor at the reading now of the clock; create_date and now
\* are seconds of the epoch.
compute_age_factor(binary, now) ==
    LET num_days == (now - binary.create_date) \div 86400
        age_days == IF num_days > 0 THEN num_days ELSE 0
    IN  Sigmoid[age_days]

compute_identity_stability(binary) == F64_ONE

\* The path is under /usr/, or starts with /bin or /sbin.
in_system_path(path) ==
    \/ StartsWith(path, <<"/", "u", "s", "r", "/">>)
    \/ StartsWith(path, <<"/", "b", "i", "n">>)
    \/ StartsWith(path, <<"/", "s", "b", "i", "n">>)

\* compute_usage_normality that reads every binary as not running.
compute_usage_normality_unrun(binary) ==
    IF in_system_path(binary.path) THEN Dec(8, -1) ELSE Dec(5, -1)

compute_usage_normality(binary) ==
    IF in_system_path(binary.path)
    THEN (IF binary.running THEN F64_ONE ELSE Dec(8, -1))
    ELSE IF binary.running THEN Dec(4, -1)
    ELSE Dec(5, -1)

\* compute_provenance; owned is the set of paths for which pacman, dpkg or
\* rpm answers with success.
compute_provenance(binary, owned) ==
    IF binary.path \in owned THEN F64_ONE ELSE F64_ZERO

\* score_binary under the clock reading now and the package databases owned.
score_binary(binary, weights, now, owned) ==
    TrustScore_compute(F64_ZERO, compute_age_factor(binary, now),
                       compute_identity_stability(binary),
                       compute_usage_normality(binary),
                       compute_provenance(binary, owned), weights)

\* Iterator::filter(..).count()
CountOf(seq, Test(_)) == Cardinality({i \in 1..Len(seq) : Test(seq[i])})

\* AuditSummary::from_snapshot
AuditSummary_from_snapshot(binaries, processes, certs, trust_threshold) ==
    [total_binaries |-> Len(binaries),
     total_processes |-> Len(processes),
     total_root_certs |-> Len(certs),
     running_binaries |-> CountOf(binaries, LAMBDA b : b.running),
     expired_certs |-> CountOf(certs, LAMBDA c : c.expired),
     low_trust_binaries |->
         CountOf(binaries,
                 LAMBDA b : /\ b.trust_score.some
                            /\ F64Lt(b.trust_score.val.total, trust_threshold)),
     unknown_certs |->
         CountOf(certs, LAMBDA c : c.in_consensus.some /\ ~c.in_consensus.val)]

(***************************************************************************)
(* i1-audit: consensus/compare.rs                                           *)
(***************************************************************************)
\* An Anomaly; of its description the model keeps the path or the subject
\* that the text names.
Anomaly(kind, severity, description) ==
    [kind |-> kind, severity |-> severity, description |-> description]

\* One turn of the loop of compare_binaries: the anomalies of a binary.
binary_anomalies(bin) ==
    LET s == bin.trust_score
        consensus ==
            IF ~s.some THEN <<>>
            ELSE IF F64Lt(s.val.hash_consensus, Dec(1, -2))
                 THEN <<Anomaly("UnknownBinary",
                                IF bin.running THEN "High" ELSE "Medium",
                                bin.path)>>
            ELSE IF F64Lt(s.val.hash_consensus, Dec(3, -1))
                 THEN <<Anomaly("RareBinary", "Low", bin.path)>>
            ELSE <<>>
        location ==
            IF ~in_system_path(bin.path) /\ bin.running
            THEN <<Anomaly("SuspiciousLocation", "Medium", bin.path)>>
            ELSE <<>>
    IN  consensus \o location

compare_binaries(binaries, min_node_threshold) ==
    Concat([i \in 1..Len(binaries) |-> binary_anomalies(binaries[i])])

\* One turn of the loop of compare_certs.
cert_anomalies(cert) ==
    (IF cert.expired
     THEN <<Anomaly("ExpiredCert", "Medium", cert.subject)>> ELSE <<>>)
    \o (IF cert.in_consensus.some /\ ~cert.in_consensus.val
        THEN <<Anomaly("UnknownCert", "Critical", cert.subject)>> ELSE <<>>)

compare_certs(certs) ==
    Concat([i \in 1..Len(certs) |-> cert_anomalies(certs[i])])

(***************************************************************************)
(* i1-audit: encoding/txt_audit.rs                                          *)
(***************************************************************************)
TXT_MAX == 255

\* ciborium::into_writer(&str): the bytes of a CBOR text string, the length
\* in the head byte below 24, in one more byte below 256, in two otherwise.
CborTextBytes(s) ==
    (IF Len(s) < 24 THEN <<96 + Len(s)>>
     ELSE IF Len(s) < 256 THEN <<120, Len(s)>>
     ELSE <<121, Len(s) \div 256, Len(s) % 256>>)
    \o [i \in 1..Len(s) |-> ByteOf(s[i])]

B64Alphabet == UpperCase \o LowerCase \o Digits \o <<"+", "/">>

\* base64 STANDARD of up to three bytes: four characters, '=' for padding.
B64Group(bytes) ==
    LET b(i) == IF i <= Len(bytes) THEN bytes[i] ELSE 0
        c1 == b(1) \div 4
        c2 == (b(1) % 4) * 16 + b(2) \div 16
        c3 == (b(2) % 16) * 4 + b(3) \div 64
        c4 == b(3) % 64
    IN  <<B64Alphabet[c1 + 1], B64Alphabet[c2 + 1],
          IF Len(bytes) > 1 THEN B64Alphabet[c3 + 1] ELSE "=",
          IF Len(bytes) > 2 THEN B64Alphabet[c4 + 1] ELSE "=">>

\* base64::engine::general_purpose::STANDARD.encode
B64_encode(bytes) ==
    Concat([k \in 1..((Len(bytes) + 2) \div 3) |->
               B64Group(SubSeq(bytes, 3 * k - 2,
                               IF 3 * k < Len(bytes) THEN 3 * k ELSE Len(bytes)))])

\* str::rsplit('/').next(): the text after the last '/'.
Basename(path) ==
    LET at == {i \in 1..Len(path) : path[i] = "/"}
    IN  IF at = {} THEN path
        ELSE SubSeq(path, (CHOOSE i \in at : \A j \in at : j <= i) + 1, Len(path))

\* The digits of a positive finite f64 before the decimal point.
IntegerDigits(x) ==
    IF x.e >= 0 THEN FormatDec(x.m) \o Repeat("0", x.e)
    ELSE IF -x.e > 9 THEN <<"0">>
    ELSE FormatDec(x.m \div Pow10(-x.e))

\* The decimal text of (x as u32): NaN and negatives give 0, what is above
\* u32::MAX gives u32::MAX, every other value loses its fraction.
as_u32(x) ==
    IF is_nan(x) \/ x.m <= 0 THEN <<"0">>
    ELSE IF ~is_finite(x) \/ Magnitude(x.m, x.e) > 9 THEN U32MaxText
    ELSE IF Len(IntegerDigits(x)) < 10 THEN IntegerDigits(x)
    ELSE IF DigitsLeq(IntegerDigits(x), U32MaxText) THEN IntegerDigits(x)
    ELSE U32MaxText

\* encode_binary_txt: Ok(the TXT value); the slice sha256[..12] panics on a
\* hash of fewer than 12 bytes.
encode_binary_txt(binary, node_count) ==
    LET basename == Basename(binary.path)
        trust_pct == IF binary.trust_score.some
                     THEN as_u32(F64Mul(binary.trust_score.val.total, Dec(100, 0)))
                     ELSE <<"0">>
        tail == <<";", "n", "a", "m", "e", "=">> \o basename \o <<";", "s", "i", "z", "e", "=">> \o FormatDec(binary.size)
                    \o <<";", "t", "r", "u", "s", "t", "=">> \o trust_pct \o <<";", "n", "o", "d", "e", "s", "=">>
                    \o FormatDec(node_count)
        core == <<"h", "a", "s", "h", "=">> \o binary.sha256 \o tail
    IN  IF Len(core) <= TXT_MAX THEN Ok(core)
        ELSE IF Len(binary.sha256) < 12 THEN Err("panic")
        ELSE Ok(<<"h", "=">> \o SubSeq(binary.sha256, 1, 12) \o tail \o <<";", "c", "b", "o", "r", "=">>
                    \o B64_encode(CborTextBytes(binary.sha256)))

(***************************************************************************)
(* The reversed-IPv4 codec applied to bounded inputs                       *)
(***************************************************************************)
Dot == <<".">>

\* How many of OctetPool's values the ip inputs are built from.
NumOctetVals == 3
OctetPool == <<1, 255, 0, 42, 10, 100>>
OctetVals == {OctetPool[i] : i \in 1..NumOctetVals}

IpText(a, b, c, d) ==
    FormatDec(a) \o Dot \o FormatDec(b) \o Dot \o FormatDec(c) \o Dot \o FormatDec(d)

ValidIpTexts == {IpText(a, b, c, d) : a, b, c, d \in OctetVals}

\* "not.an.ip" (test_invalid_ip), too few and too many octets, an octet above
\* 255, a leading zero, an empty octet, the empty string, a CIDR.
InvalidIpTexts ==
    { <<"n", "o", "t", ".", "a", "n", ".", "i", "p">>,
      <<"1", ".", "2", ".", "3">>,
      <<"1", ".", "2", ".", "3", ".", "4", ".", "5">>,
      <<"2", "5", "6", ".", "1", ".", "1", ".", "1">>,
      <<"0", "1", ".", "2", ".", "3", ".", "4">>,
      <<"1", ".", ".", "3", ".", "4">>,
      <<>>,
      <<"1", ".", "2", ".", "3", ".", "0", "/", "2", "4">> }

DnIps == ValidIpTexts \cup InvalidIpTexts

\* The default blocklist origin, an origin without its trailing dot, an origin
\* made of digits, one that starts with a dot, and the empty origin.
DnZones ==
    { ZoneBl, <<"b", "l">>, <<"1", ".">>, <<".", "5">>, <<>> }

\* What may stand in front of the zone in a received query name.
DnPrefixes ==
    { <<"4", ".", "3", ".", "2", ".", "1">>,
      <<"2", "5", "5", ".", "0", ".", "4", "2", ".", "1", "0">>,
      <<"x", ".", "y", ".", "z", ".", "w">>,
      <<"9", "9", "9", ".", "1", ".", "1", ".", "1">>,
      <<".", ".", ".">>,
      <<"3", ".", "2", ".", "1">>,
      <<"5", ".", "4", ".", "3", ".", "2", ".", "1">>,
      <<>> }

\* Query names under the zone, glued to it without the dot, and under
\* another zone.
DnQueries(zone) ==
    {p \o Dot \o zone : p \in DnPrefixes}
        \cup {p \o zone : p \in DnPrefixes}
        \cup {p \o <<".", "o", "t", "h", "e", "r", ".">> : p \in DnPrefixes}

DnInit ==
    /\ dn_ip \in DnIps
    /\ dn_zone \in DnZones
    /\ dn_query = <<>>
    /\ dn_name = NotRun
    /\ dn_back = NotRun
    /\ dn_src = "none"

\* A caller builds the DNSBL query name of dn_ip.
DnBuild ==
    /\ dn_name = NotRun
    /\ dn_name' = build_query_name(dn_ip, dn_zone)
    /\ UNCHANGED <<dn_ip, dn_zone, dn_query, dn_back, dn_src>>
    /\ UNCHANGED dn_others

\* The name that was built is parsed back.
DnParseBuilt ==
    /\ dn_name.ok
    /\ dn_src = "none"
    /\ dn_back' = parse_query_name(dn_name.val, dn_zone)
    /\ dn_src' = "built"
    /\ UNCHANGED <<dn_ip, dn_zone, dn_query, dn_name>>
    /\ UNCHANGED dn_others

\* A query name arrives from outside and is parsed.
DnParseQuery ==
    /\ dn_src = "none"
    /\ \E q \in DnQueries(dn_zone) :
        /\ dn_query' = q
        /\ dn_back' = parse_query_name(q, dn_zone)
    /\ dn_src' = "query"
    /\ UNCHANGED <<dn_ip, dn_zone, dn_name>>
    /\ UNCHANGED dn_others

DnIdle ==
    /\ dn_ip = <<>>
    /\ dn_zone = <<>>
    /\ dn_query = <<>>
    /\ dn_name = NotRun
    /\ dn_back = NotRun
    /\ dn_src = "none"

DnNext == DnBuild \/ DnParseBuilt \/ DnParseQuery

\* C7: for every valid IPv4 string ip and every zone z, build_query_name(ip, z)
\* succeeds and is the octets of ip in reverse order, then '.', then z; and
\* parse_query_name of that name under z succeeds and returns ip.
C7_RoundTrip ==
    /\ (dn_name # NotRun /\ ParseIpv4(dn_ip).ok) =>
          /\ dn_name.ok
          /\ dn_name.val = Join(Reverse(Split(dn_ip, ".")), Dot) \o Dot \o dn_zone
    /\ dn_src = "built" => (dn_back.ok /\ dn_back.val = dn_ip)

\* A built name of an address whose octets differ was parsed back.
C7_Witness ==
    /\ dn_src = "built"
    /\ dn_back.ok
    /\ dn_ip = IpText(1, 255, 0, 1)
    /\ dn_zone = ZoneBl

\* A query name is well formed under zone when it is four decimal octets
\* (each 0-255), a '.', and the zone.
IsReversedIpQuery(q, zone) ==
    \E n \in 0..Len(q) :
        /\ SubSeq(q, n + 1, Len(q)) = Dot \o zone
        /\ LET parts == Split(SubSeq(q, 1, n), ".")
           IN  /\ Len(parts) = 4
               /\ \A i \in 1..4 :
                    /\ Len(parts[i]) \in 1..3
                    /\ AllDigits(parts[i])
                    /\ DecValue(parts[i]) <= 255

\* C8: malformed input to the codec always fails with an Encoding error:
\* build_query_name for every ip that is not a valid IPv4 address, and
\* parse_query_name for every query name that is not four decimal octets
\* followed by '.' and the zone.
C8_MalformedFails ==
    /\ (dn_name # NotRun /\ ~ParseIpv4(dn_ip).ok) =>
          (~dn_name.ok /\ dn_name.err = "Encoding")
    /\ (dn_src = "query" /\ ~IsReversedIpQuery(dn_query, dn_zone)) =>
          (~dn_back.ok /\ dn_back.err = "Encoding")

(***************************************************************************)
(* The TXT codec applied to bounded inputs                                 *)
(***************************************************************************)
T_cn == <<"c", "n">>
T_AS1234 == <<"A", "S", "1", "2", "3", "4">>
T_EvilCorp == <<"E", "v", "i", "l", " ", "C", "o", "r", "p">>
T_high == <<"h", "i", "g", "h">>
T_ssh == <<"s", "s", "h">>

\* The organisation names: the test's, one with a ';' in it, and two that
\* put the simple form of a record holding only org at exactly
\* SIMPLE_MAX_BYTES and one byte past it ("org=" is four bytes).
TxOrgs ==
    { None,
      Some(T_EvilCorp),
      Some(<<"a", ";", "b">>),
      Some(Repeat("x", SIMPLE_MAX_BYTES - 4)),
      Some(Repeat("x", SIMPLE_MAX_BYTES - 3)) }

\* The extras: none, an unknown key, a key that is also a field name, and a
\* key that begins like the CBOR prefix.
TxExtras ==
    { EmptyMap,
      MapInsert(EmptyMap, <<"k">>, <<"v">>),
      MapInsert(EmptyMap, K_cc, <<"u", "s">>),
      MapInsert(EmptyMap, <<"c", "b", "o", "r", ":", "k">>, <<"v">>) }

TxInputs ==
    [cc : {None, Some(T_cn)},
     asn : {None, Some(T_AS1234)},
     org : TxOrgs,
     ports : {<<>>, <<22, 80, 443>>},
     threat : {None, Some(T_high)},
     pattern : {None, Some(T_ssh)},
     hits : {NoneNum, Some(42)},
     extra : TxExtras]

\* TXT strings as they may arrive: the test's simple record, the empty
\* string, the bare prefix, the prefix before text that is no base64 CBOR,
\* the prefix in upper case, and a CBOR record.
TxWire ==
    { <<"c", "c", "=", "u", "s", ";", "t", "h", "r", "e", "a", "t", "=", "l", "o", "w">>,
      <<>>,
      CBOR_PREFIX,
      CBOR_PREFIX \o <<"k", "=", "v">>,
      <<"C", "B", "O", "R", ":">> \o CborB64(ReputationData_empty),
      CBOR_PREFIX \o CborB64([ReputationData_empty EXCEPT !.cc = Some(T_cn)]) }

TxInit ==
    /\ tx_data \in TxInputs
    /\ tx_txt = NotRun
    /\ tx_wire = <<>>
    /\ tx_out = NotRun
    /\ tx_src = "none"

TxEncode ==
    /\ tx_txt = NotRun
    /\ tx_txt' = encode(tx_data)
    /\ UNCHANGED <<tx_data, tx_wire, tx_out, tx_src>>
    /\ UNCHANGED tx_others

TxDecodeEncoded ==
    /\ tx_txt.ok
    /\ tx_src = "none"
    /\ tx_out' = decode(tx_txt.val)
    /\ tx_src' = "encoded"
    /\ UNCHANGED <<tx_data, tx_txt, tx_wire>>
    /\ UNCHANGED tx_others

TxDecodeWire ==
    /\ tx_src = "none"
    /\ \E s \in TxWire :
        /\ tx_wire' = s
        /\ tx_out' = decode(s)
    /\ tx_src' = "wire"
    /\ UNCHANGED <<tx_data, tx_txt>>
    /\ UNCHANGED tx_others

TxIdle ==
    /\ tx_data = ReputationData_empty
    /\ tx_txt = NotRun
    /\ tx_wire = <<>>
    /\ tx_out = NotRun
    /\ tx_src = "none"

TxNext == TxEncode \/ TxDecodeEncoded \/ TxDecodeWire

\* C9: for every ReputationData x, decode(encode(x)) succeeds and equals x
\* field for field, in the simple form and in the cbor: form.
C9_RoundTrip ==
    tx_src = "encoded" => (tx_out.ok /\ tx_out.val = tx_data)

\* C10: encode returns a string without the cbor: prefix when the simple
\* encoding is at most 250 bytes and one with it when it is longer; decode
\* reads a string as CBOR exactly when it starts with cbor:.
C10_Boundary ==
    /\ tx_txt # NotRun =>
          /\ tx_txt.ok
          /\ (Len(encode_simple(tx_data)) <= SIMPLE_MAX_BYTES
                => ~StartsWith(tx_txt.val, CBOR_PREFIX))
          /\ (Len(encode_simple(tx_data)) > SIMPLE_MAX_BYTES
                => StartsWith(tx_txt.val, CBOR_PREFIX))
    /\ tx_src = "wire" =>
          IF StartsWith(tx_wire, CBOR_PREFIX)
          THEN tx_out = decode_cbor(SubSeq(tx_wire, Len(CBOR_PREFIX) + 1, Len(tx_wire)))
          ELSE tx_out = Ok(decode_simple(tx_wire))

(***************************************************************************)
(* The zone builder applied to bounded snapshots                           *)
(***************************************************************************)
\* The longest blocked_ips list.
MaxIps == 2

\* blocked_ips entries: two hosts, a CIDR range and a text that is neither.
ZbIpTexts ==
    { <<"1", ".", "2", ".", "3", ".", "4">>, <<"1", "0", ".", "0", ".", "0", ".", "1">>, <<"1", "0", ".", "0", ".", "0", ".", "0", "/", "2", "4">>, <<"1", ".", "2", ".", "3">> }

\* Every list of at most n entries of a set.
ListsUpTo(set, n) == UNION {[1..k -> set] : k \in 0..n}

C_cn == <<"c", "n">>
C_ru == <<"r", "u">>
C_kz == <<"k", "z">>

\* blocked_countries and blocked_countries_outbound, with a country of both
\* lists, countries of one list only and a repeated country.
ZbInbound == { <<>>, <<C_cn>>, <<C_cn, C_ru>>, <<C_cn, C_cn>> }
ZbOutbound == { <<>>, <<C_cn>>, <<C_kz>>, <<C_cn, C_kz>> }

\* blocked_asns, in the spellings populate_asn_records accepts.
ZbAsns ==
    { <<>>, <<<<"A", "S", "1", "2", "3", "4", "5">>>>, <<<<"a", "s", "1", "2", "3", "4", "5">>>>, <<<<"A", "S", "1", "2", "3", "4", "5">>, <<"a", "s", "1", "2", "3", "4", "5">>>>,
      <<<<"6", "4", "5", "1", "2">>>> }

ZbWhitelists == { <<>>, <<<<"1", ".", "2", ".", "3", ".", "4">>>> }

ZbSnapshots ==
    { [blocked_ips |-> ips, blocked_countries |-> inbound,
       blocked_countries_outbound |-> outbound, blocked_asns |-> asns,
       whitelisted_ips |-> white] :
        ips \in ListsUpTo(ZbIpTexts, MaxIps), inbound \in ZbInbound,
        outbound \in ZbOutbound, asns \in ZbAsns, white \in ZbWhitelists }

ZbSerials == { 2026110401, 2026110402 }

\* 2026-11-04T09:05:07Z
T_morning ==
    [year |-> 2026, month |-> 11, day |-> 4, hour |-> 9, minute |-> 5, second |-> 7]

ZbInit ==
    /\ zb_snapshot \in ZbSnapshots
    /\ zb_zones = ZoneConfig_default
    /\ zb_serial \in ZbSerials
    /\ zb_now = T_morning
    /\ zb_built = NotRun

\* A caller builds the zones of zb_snapshot.
ZbBuild ==
    /\ zb_built = NotRun
    /\ zb_built' = build_zones(zb_snapshot, zb_zones, zb_serial, zb_now)
    /\ UNCHANGED <<zb_snapshot, zb_zones, zb_serial, zb_now>>
    /\ UNCHANGED zb_others

ZbIdle ==
    /\ zb_snapshot = DefenseSnapshot_default
    /\ zb_zones = ZoneConfig_default
    /\ zb_serial = 0
    /\ zb_now = T_morning
    /\ zb_built = NotRun

ZbNext == ZbBuild

\* The TXT strings a zone holds at the name text names (none when the text
\* is no name).
TxtAt(zone, text) ==
    LET texts(records) == [i \in 1..Len(records) |-> records[i].rdata[1]]
        at(name) ==
            IF name.ok THEN texts(RecordsAt(zone, name.val, "TXT")) ELSE <<>>
    IN  at(Name_parse(text))

\* C3: a country of both blocked_countries and blocked_countries_outbound
\* has exactly one TXT record at <cc>.<geo-zone>, status=blocked;direction=both;
\* a country of the inbound list only has direction=inbound and one of the
\* outbound list only direction=outbound.
C3_GeoDirection ==
    zb_built.ok =>
        \A cc \in {C_cn, C_ru, C_kz} :
            LET inbound == SeqContains(zb_snapshot.blocked_countries, cc)
                outbound == SeqContains(zb_snapshot.blocked_countries_outbound, cc)
                held == TxtAt(zb_built.val.geo, cc \o <<".">> \o zb_zones.geo)
            IN  /\ (inbound /\ outbound) =>
                      held = <<<<"s", "t", "a", "t", "u", "s", "=", "b", "l", "o", "c", "k", "e", "d", ";", "d", "i", "r", "e", "c", "t", "i", "o", "n", "=", "b", "o", "t", "h">>>>
                /\ (inbound /\ ~outbound) =>
                      held = <<<<"s", "t", "a", "t", "u", "s", "=", "b", "l", "o", "c", "k", "e", "d", ";", "d", "i", "r", "e", "c", "t", "i", "o", "n", "=", "i", "n", "b", "o", "u", "n", "d">>>>
                /\ (~inbound /\ outbound) =>
                      held = <<<<"s", "t", "a", "t", "u", "s", "=", "b", "l", "o", "c", "k", "e", "d", ";", "d", "i", "r", "e", "c", "t", "i", "o", "n", "=", "o", "u", "t", "b", "o", "u", "n", "d">>>>

\* The blocked_ips entries that are single IPv4 addresses: their positions.
SingleIpEntries(snapshot) ==
    {i \in 1..Len(snapshot.blocked_ips) :
        /\ ~Contains(snapshot.blocked_ips[i], "/")
        /\ ParseIpv4(snapshot.blocked_ips[i]).ok}

\* C4: entry_count is the number of single-IPv4 blocked_ips entries plus the
\* lengths of blocked_countries, blocked_countries_outbound and blocked_asns,
\* and the one TXT record at _v.<signal-zone> carries that count as entries
\* and the serial build_zones was given.
C4_EntryCount ==
    zb_built.ok =>
        LET expected == Cardinality(SingleIpEntries(zb_snapshot))
                        + Len(zb_snapshot.blocked_countries)
                        + Len(zb_snapshot.blocked_countries_outbound)
                        + Len(zb_snapshot.blocked_asns)
            held == TxtAt(zb_built.val.signal, <<"_", "v", ".">> \o zb_zones.signal)
            fields == Split(held[1], ";")
        IN  /\ zb_built.val.entry_count = expected
            /\ zb_built.val.serial = zb_serial
            /\ Len(held) = 1
            /\ Len(fields) = 3
            /\ fields[1] = <<"s", "e", "r", "i", "a", "l", "=">> \o FormatDec(zb_serial)
            /\ fields[2] = <<"e", "n", "t", "r", "i", "e", "s", "=">> \o FormatDec(expected)

C4_Witness ==
    /\ zb_built.ok
    /\ zb_snapshot.blocked_ips = <<<<"1", ".", "2", ".", "3", ".", "4">>, <<"1", "0", ".", "0", ".", "0", ".", "0", "/", "2", "4">>>>
    /\ zb_snapshot.blocked_countries = <<C_cn, C_ru>>
    /\ zb_snapshot.blocked_countries_outbound = <<C_cn, C_kz>>
    /\ zb_snapshot.blocked_asns = <<<<"A", "S", "1", "2", "3", "4", "5">>>>
    /\ zb_built.val.entry_count = 6

\* The records of a zone other than its SOA.
RECURSIVE RecordTotal(_)
RecordTotal(rrsets) ==
    IF rrsets = {} THEN 0
    ELSE LET rs == CHOOSE r \in rrsets : TRUE
         IN  Len(rs.records) + RecordTotal(rrsets \ {rs})

ThreatRecords(zone) == RecordTotal({rs \in zone.rrsets : rs.rtype # "SOA"})

\* C5: for any snapshot, repeated entries included, entry_count equals the
\* number of non-SOA records the blocklist, geo and asn zones hold.
C5_EntriesAreRecords ==
    zb_built.ok =>
        zb_built.val.entry_count =
            ThreatRecords(zb_built.val.blocklist) + ThreatRecords(zb_built.val.geo)
                + ThreatRecords(zb_built.val.asn)

\* The names of a zone that hold records of a type.
NamesWith(zone, rtype) ==
    {rs.name : rs \in {r \in zone.rrsets : r.rtype = rtype /\ r.records # <<>>}}

\* The name of an address under a zone origin.
ReverseName(ip_str, origin) ==
    Name_parse(reverse_ipv4(ParseIpv4(ip_str).val) \o <<".">> \o origin).val

\* C6: a blocked_ips entry holding '/' is skipped without an error: the
\* blocklist zone has A records and the reputation zone TXT records at the
\* names of the single addresses of the list and nowhere else, only those
\* entries are counted, and a snapshot of CIDR ranges alone counts 0.
C6_CidrSkipped ==
    zb_built # NotRun =>
        LET ips == zb_snapshot.blocked_ips
            singles == {ips[i] : i \in SingleIpEntries(zb_snapshot)}
            others == Len(zb_snapshot.blocked_countries)
                      + Len(zb_snapshot.blocked_countries_outbound)
                      + Len(zb_snapshot.blocked_asns)
        IN  /\ zb_built.ok
            /\ NamesWith(zb_built.val.blocklist, "A")
                  = {ReverseName(s, zb_zones.blocklist) : s \in singles}
            /\ NamesWith(zb_built.val.reputation, "TXT")
                  = {ReverseName(s, zb_zones.reputation) : s \in singles}
            /\ zb_built.val.entry_count - others
                  = Cardinality(SingleIpEntries(zb_snapshot))
            /\ ((\A i \in 1..Len(ips) : Contains(ips[i], "/")) /\ others = 0)
                  => zb_built.val.entry_count = 0

C6_Witness ==
    /\ zb_built.ok
    /\ zb_snapshot.blocked_ips = <<<<"1", "0", ".", "0", ".", "0", ".", "0", "/", "2", "4">>, <<"1", ".", "2", ".", "3", ".", "4">>>>
    /\ zb_built.val.entry_count = 1
    /\ NamesWith(zb_built.val.blocklist, "A") = {Name_parse(<<"4", ".", "3", ".", "2", ".", "1", ".", "b", "l", ".", "i", "1", ".", "i", "s", ".">>).val}
    /\ TxtAt(zb_built.val.reputation, <<"4", ".", "3", ".", "2", ".", "1", ".", "r", "e", "p", ".", "i", "1", ".", "i", "s", ".">>) = <<<<"t", "h", "r", "e", "a", "t", "=", "b", "l", "o", "c", "k", "e", "d">>>>

(***************************************************************************)
(* The runtime: startup, the clock, the state file, reloads and queries    *)
(***************************************************************************)
\* The reloads of one UTC day beside the control tool.
MaxReloads == 2

\* The reloads of one UTC day of a node left alone.
MaxReloadsPerDay == 100

\* 2026-11-04T23:59:50Z
T_evening ==
    [year |-> 2026, month |-> 11, day |-> 4, hour |-> 23, minute |-> 59, second |-> 50]

\* 2026-11-05T00:00:30Z
T_next_day ==
    [year |-> 2026, month |-> 11, day |-> 5, hour |-> 0, minute |-> 0, second |-> 30]

\* The instants the clock passes through.
SvTimes == <<T_morning, T_evening, T_next_day>>

Now == SvTimes[sv_clock]

StringArray(items) == [strings |-> TRUE, items |-> items]

FileAbsent == [exists |-> FALSE, readable |-> FALSE,
               json |-> [well_formed |-> FALSE, members |-> EmptyMap]]

\* A file cut short while it was written: no JSON.
FileTruncated == [exists |-> TRUE, readable |-> TRUE,
                  json |-> [well_formed |-> FALSE, members |-> EmptyMap]]

\* {"blocked_ips": "1.2.3.4"}: JSON, but the member is no array.
FileMistyped ==
    [exists |-> TRUE, readable |-> TRUE,
     json |-> [well_formed |-> TRUE,
               members |-> [f \in {"blocked_ips"} |->
                               [strings |-> FALSE, items |-> <<>>]]]]

\* The state of the tests of collector.rs, shortened.
FileBlocks ==
    [exists |-> TRUE, readable |-> TRUE,
     json |-> [well_formed |-> TRUE,
               members |->
                   [f \in StateFileFields |->
                       CASE f = "blocked_ips" ->
                                StringArray(<<<<"1", ".", "2", ".", "3", ".", "4">>, <<"1", "0", ".", "0", ".", "0", ".", "0", "/", "2", "4">>>>)
                         [] f = "blocked_countries" -> StringArray(<<C_ru>>)
                         [] f = "blocked_countries_outbound" -> StringArray(<<C_kz>>)
                         [] f = "blocked_asns" -> StringArray(<<<<"A", "S", "1", "2", "3", "4", "5">>>>)
                         [] f = "whitelisted_ips" ->
                                StringArray(<<<<"1", "7", "3", ".", "7", "1", ".", "1", "5", "5", ".", "7", "3">>>>)]]]

\* {"blocked_ips": ["1.1.1.1"], "version": 2}
FileMinimal ==
    [exists |-> TRUE, readable |-> TRUE,
     json |-> [well_formed |-> TRUE,
               members |->
                   [f \in {"blocked_ips", "version"} |->
                       IF f = "blocked_ips" THEN StringArray(<<<<"1", ".", "1", ".", "1", ".", "1">>>>)
                       ELSE [strings |-> FALSE, items |-> <<>>]]]]

SvFiles == {FileAbsent, FileTruncated, FileMistyped, FileBlocks, FileMinimal}

\* The questions of the clients.
SvQuestions ==
    { [name |-> <<"4", ".", "3", ".", "2", ".", "1", ".", "b", "l", ".", "i", "1", ".", "i", "s", ".">>, rtype |-> "A"],
      [name |-> <<"r", "u", ".", "g", "e", "o", ".", "i", "1", ".", "i", "s", ".">>, rtype |-> "TXT"],
      [name |-> <<"_", "v", ".", "s", "i", "g", ".", "i", "1", ".", "i", "s", ".">>, rtype |-> "TXT"] }

NoReply == [question |-> [name |-> <<>>, rtype |-> "none"],
            response |-> [rcode |-> "none", answers |-> <<>>, serial |-> 0],
            after |-> "none"]

NoSignal == [serial |-> 0, entries |-> 0, updated |-> T_morning]

SvBefore ==
    /\ sv_clock = 1
    /\ sv_phase = "starting"
    /\ sv_catalog = EmptyMap
    /\ sv_signal = NoSignal
    /\ sv_last = "none"
    /\ sv_serials = <<>>
    /\ sv_attempts = 0
    /\ sv_reply = NoReply

SvInit == sv_file \in SvFiles /\ SvBefore

SvInitFresh == sv_file = FileAbsent /\ SvBefore

SvIdle == sv_file = FileAbsent /\ SvBefore

\* The node starts: the caller loads the snapshot and hands it to run.
SvStart ==
    /\ sv_phase = "starting"
    /\ \E bound \in BOOLEAN :
          LET begin(started) ==
                  IF started.ok
                  THEN /\ sv_phase' = "serving"
                       /\ sv_catalog' = started.val.catalog
                       /\ sv_signal' = started.val.signal
                       /\ sv_serials' = <<started.val.signal.serial>>
                  ELSE /\ sv_phase' = "failed"
                       /\ UNCHANGED <<sv_catalog, sv_signal, sv_serials>>
              with(loaded) ==
                  IF loaded.ok
                  THEN begin(run(ZoneConfig_default, loaded.val, Now, bound))
                  ELSE begin(loaded)
          IN  with(load_snapshot(sv_file))
    /\ UNCHANGED <<sv_clock, sv_file, sv_last, sv_attempts, sv_reply>>
    /\ UNCHANGED sv_others

\* Time passes; the count of the day's reloads starts over with the day.
SvTick ==
    /\ sv_phase = "serving"
    /\ sv_clock < Len(SvTimes)
    /\ sv_clock' = sv_clock + 1
    /\ sv_attempts' = IF SameUtcDay(SvTimes[sv_clock + 1], Now)
                      THEN sv_attempts ELSE 0
    /\ UNCHANGED <<sv_file, sv_phase, sv_catalog, sv_signal, sv_last,
                   sv_serials, sv_reply>>
    /\ UNCHANGED sv_others

\* The control tool rewrites or removes the state file.
SvWriteFile ==
    /\ \E file \in SvFiles \ {sv_file} : sv_file' = file
    /\ UNCHANGED <<sv_clock, sv_phase, sv_catalog, sv_signal, sv_last,
                   sv_serials, sv_attempts, sv_reply>>
    /\ UNCHANGED sv_others

\* The reload timer fires, at most limit times a day: the catalog and the
\* signal are swapped for the rebuilt ones, or kept when the reload fails.
SvReload(limit) ==
    /\ sv_phase = "serving"
    /\ sv_attempts < limit
    /\ sv_attempts' = sv_attempts + 1
    /\ LET end(reloaded) ==
               IF reloaded.ok
               THEN /\ sv_catalog' = reloaded.val.catalog
                    /\ sv_signal' = reloaded.val.signal
                    /\ sv_serials' = Append(sv_serials, reloaded.val.signal.serial)
                    /\ sv_last' = "ok"
               ELSE /\ sv_last' = reloaded.err
                    /\ UNCHANGED <<sv_catalog, sv_signal, sv_serials>>
       IN  end(reload(ZoneConfig_default, sv_file, sv_signal, Now))
    /\ UNCHANGED <<sv_clock, sv_file, sv_phase, sv_reply>>
    /\ UNCHANGED sv_others

\* A client asks and is answered from the catalog in service.
SvQuery ==
    /\ sv_phase = "serving"
    /\ \E question \in SvQuestions :
          sv_reply' = [question |-> question,
                       response |-> Response(sv_catalog, question),
                       after |-> sv_last]
    /\ UNCHANGED <<sv_clock, sv_file, sv_phase, sv_catalog, sv_signal, sv_last,
                   sv_serials, sv_attempts>>
    /\ UNCHANGED sv_others

SvReloadBeside == SvReload(MaxReloads)

SvReloadAlone == SvReload(MaxReloadsPerDay)

SvNext == SvStart \/ SvTick \/ SvWriteFile \/ SvReloadBeside \/ SvQuery

SvNextFresh == SvStart \/ SvTick \/ SvReloadAlone

\* The file is there and readable, and its text is no JSON of a state.
StateMalformed(file) ==
    /\ file.exists
    /\ file.readable
    /\ \/ ~file.json.well_formed
       \/ \E f \in DOMAIN file.json.members \cap StateFileFields :
              ~file.json.members[f].strings

\* A reload step.
Reloads == sv_attempts' = sv_attempts + 1

C2_SerialMonotonic ==
    /\ sv_serials # <<>> =>
          FormatDec(sv_serials[1]) = <<"2", "0", "2", "6", "1", "1", "0", "4", "0", "1">>
    /\ \A i, j \in 1..Len(sv_serials) :
          i < j => sv_serials[i] < sv_serials[j]

(***************************************************************************)
(* The signal codec applied to bounded inputs                              *)
(***************************************************************************)
\* 2028-02-29T23:59:59Z, 0999-01-01T00:00:00Z and 10000-12-31T12:30:45Z
T_leap_day ==
    [year |-> 2028, month |-> 2, day |-> 29, hour |-> 23, minute |-> 59, second |-> 59]
T_year_999 ==
    [year |-> 999, month |-> 1, day |-> 1, hour |-> 0, minute |-> 0, second |-> 0]
T_year_10000 ==
    [year |-> 10000, month |-> 12, day |-> 31, hour |-> 12, minute |-> 30, second |-> 45]

SgTimes == {T_morning, T_evening, T_leap_day, T_year_999, T_year_10000}

\* Signals: the serial and the entries of the unit test, zero, and the
\* largest number of the model.
SgInputs ==
    [serial : {0, 2026021701, 2147483647}, entries : {0, 4523}, updated : SgTimes]

W_serial == <<"s", "e", "r", "i", "a", "l", "=", "2", "0", "2", "6", "0", "2", "1", "7", "0", "1">>
W_entries == <<"e", "n", "t", "r", "i", "e", "s", "=", "4", "5", "2", "3">>
W_updated == <<"u", "p", "d", "a", "t", "e", "d", "=", "2", "0", "2", "6", "-", "0", "2", "-", "1", "7", "T", "1", "4", ":", "3", "0", "Z">>

\* TXT strings as they may arrive: the record of the module's header; one
\* without each field; one with each field unparsable; the two RFC 3339
\* forms; unknown fields and a part without '='; the empty string; a field
\* given twice.
SgWire ==
    { Join(<<W_serial, W_entries, W_updated>>, <<";">>),
      Join(<<W_entries, W_updated>>, <<";">>),
      Join(<<W_serial, W_updated>>, <<";">>),
      Join(<<W_serial, W_entries>>, <<";">>),
      Join(<<<<"s", "e", "r", "i", "a", "l", "=", "a", "b", "c">>, W_entries, W_updated>>, <<";">>),
      Join(<<<<"s", "e", "r", "i", "a", "l", "=", "-", "1">>, W_entries, W_updated>>, <<";">>),
      Join(<<W_serial, <<"e", "n", "t", "r", "i", "e", "s", "=", "4", "2", "9", "4", "9", "6", "7", "2", "9", "6">>, W_updated>>, <<";">>),
      Join(<<W_serial, W_entries, <<"u", "p", "d", "a", "t", "e", "d", "=", "2", "0", "2", "6", "-", "1", "3", "-", "1", "7", "T", "1", "4", ":", "3", "0", "Z">>>>, <<";">>),
      Join(<<W_serial, W_entries, <<"u", "p", "d", "a", "t", "e", "d", "=", "2", "0", "2", "7", "-", "0", "2", "-", "2", "9", "T", "1", "4", ":", "3", "0", "Z">>>>, <<";">>),
      Join(<<W_serial, W_entries, <<"u", "p", "d", "a", "t", "e", "d", "=", "2", "0", "2", "6", "-", "0", "2", "-", "1", "7", "T", "1", "4", ":", "3", "0", ":", "1", "5", "Z">>>>, <<";">>),
      Join(<<W_serial, W_entries, <<"u", "p", "d", "a", "t", "e", "d", "=", "2", "0", "2", "6", "-", "0", "3", "-", "0", "1", "T", "0", "0", ":", "3", "0", ":", "1", "5", ".", "2", "5", "0", "+", "0", "2", ":", "0", "0">>>>, <<";">>),
      Join(<<W_serial, W_entries, <<"u", "p", "d", "a", "t", "e", "d", "=", "2", "0", "2", "6", "-", "0", "2", "-", "1", "7", " ", "1", "4", ":", "3", "0">>>>, <<";">>),
      Join(<<<<"v", "=", "2">>, W_serial, <<"j", "u", "n", "k">>, W_entries, W_updated>>, <<";">>),
      <<>>,
      Join(<<W_serial, W_entries, <<"u", "p", "d", "a", "t", "e", "d", "=", "n", "e", "v", "e", "r">>, W_updated>>, <<";">>),
      Join(<<W_serial, <<"e", "n", "t", "r", "i", "e", "s", "=">>, W_entries, W_updated>>, <<";">>) }

SgInit ==
    /\ sg_data \in SgInputs
    /\ sg_txt = <<>>
    /\ sg_wire = <<>>
    /\ sg_out = NotRun
    /\ sg_src = "none"

SgEncode ==
    /\ sg_txt = <<>>
    /\ sg_txt' = SignalData_to_txt(sg_data)
    /\ UNCHANGED <<sg_data, sg_wire, sg_out, sg_src>>
    /\ UNCHANGED sg_others

SgDecodeEncoded ==
    /\ sg_txt # <<>>
    /\ sg_src = "none"
    /\ sg_out' = SignalData_from_txt(sg_txt)
    /\ sg_src' = "encoded"
    /\ UNCHANGED <<sg_data, sg_txt, sg_wire>>
    /\ UNCHANGED sg_others

SgDecodeWire ==
    /\ sg_src = "none"
    /\ \E s \in SgWire :
        /\ sg_wire' = s
        /\ sg_out' = SignalData_from_txt(s)
    /\ sg_src' = "wire"
    /\ UNCHANGED <<sg_data, sg_txt>>
    /\ UNCHANGED sg_others

SgIdle ==
    /\ sg_data = [serial |-> 0, entries |-> 0, updated |-> T_morning]
    /\ sg_txt = <<>>
    /\ sg_wire = <<>>
    /\ sg_out = NotRun
    /\ sg_src = "none"

SgNext == SgEncode \/ SgDecodeEncoded \/ SgDecodeWire

\* The values that the parts key=value of a TXT string give to key, in order.
FieldValues(txt, key) ==
    LET parts == Split(txt, ";")
        mine == SelectSeq(parts, LAMBDA p : StartsWith(p, key \o <<"=">>))
    IN  [i \in 1..Len(mine) |-> SubSeq(mine[i], Len(key) + 2, Len(mine[i]))]

\* A TXT string lacks a field, or gives it a value that does not parse: a
\* serial or entries value anywhere, the updated value that is kept (the last).
SignalFieldsBroken(txt) ==
    LET serials == FieldValues(txt, <<"s", "e", "r", "i", "a", "l">>)
        entries == FieldValues(txt, <<"e", "n", "t", "r", "i", "e", "s">>)
        updates == FieldValues(txt, <<"u", "p", "d", "a", "t", "e", "d">>)
    IN  \/ serials = <<>> \/ entries = <<>> \/ updates = <<>>
        \/ \E i \in 1..Len(serials) : ~ParseU64(serials[i]).some
        \/ \E i \in 1..Len(entries) : ~ParseU32(entries[i]).some
        \/ ~parse_updated(updates[Len(updates)]).some

\* C11: from_txt(s.to_txt()) succeeds with the serial, the entries and the
\* updated time of s cut to the minute; from_txt returns an Encoding error
\* when serial, entries or updated is missing or does not parse, and
\* succeeds otherwise.
C11_SignalRoundTrip ==
    /\ sg_src = "encoded" =>
          /\ sg_out.ok
          /\ sg_out.val.serial = sg_data.serial
          /\ sg_out.val.entries = sg_data.entries
          /\ sg_out.val.updated = [sg_data.updated EXCEPT !.second = 0]
    /\ sg_src = "wire" =>
          IF SignalFieldsBroken(sg_wire)
          THEN ~sg_out.ok /\ sg_out.err = "Encoding"
          ELSE sg_out.ok

\* A signal past year 9999 with seconds on its clock has made the round trip.
C11_Witness ==
    /\ sg_src = "encoded"
    /\ sg_data.updated = T_year_10000
    /\ sg_data.serial = 2026021701
    /\ sg_out.ok

(***************************************************************************)
(* The trust digest and the verification token on bounded snapshots         *)
(***************************************************************************)
MaxScans == 2

\* types/binary.rs: BinaryInfo
BinaryInfo(path, sha256, running, trust_score) ==
    [path |-> path, sha256 |-> sha256, create_date |-> NoneNum,
     modify_date |-> IF running THEN Some(1771367400) ELSE NoneNum,
     identity |-> None, size |-> IF running THEN 4096 ELSE 512,
     running |-> running,
     process_names |-> IF running THEN <<path>> ELSE <<>>,
     trust_score |-> trust_score]

\* types/cert.rs: RootCertInfo
RootCertInfo(path, fingerprint, trust_score) ==
    [path |-> path, fingerprint |-> fingerprint, issuer |-> <<"C", "N", "=", "R", "o", "o", "t">>,
     subject |-> <<"C", "N", "=", "R", "o", "o", "t">>, serial |-> <<"0", "1">>, not_before |-> None,
     not_after |-> None, expired |-> FALSE, in_consensus |-> trust_score # NoneNum,
     trust_score |-> trust_score]

Hash_ab == <<"a", "b">>
Hash_c == <<"c">>
Hash_real == <<"b", "9", "4", "d", "2", "7", "b", "9", "9", "3", "4", "d", "3", "e", "0", "8", "a", "5", "2", "e", "5", "2", "d", "7", "d", "a", "7", "d", "a", "b", "f", "a", "c", "4", "8", "4", "e", "f", "e", "3", "7", "a", "5", "3", "8", "0", "e", "e", "9", "0", "8", "8", "f", "7", "a", "c", "e", "2", "e", "f", "c", "d", "e", "9">>
Fp_1 == <<"f", "1">>
Fp_2 == <<"f", "2">>

\* types/snapshot.rs: AuditSnapshot
S_base ==
    [node_id |-> <<"n", "1">>, collected_at |-> 1771367400, system_uptime_secs |-> 3600,
     cpu_count |-> 4,
     binaries |-> <<BinaryInfo(<<"/", "b", "i", "n", "/", "l", "s">>, Hash_ab, FALSE, NoneNum),
                    BinaryInfo(<<"/", "b", "i", "n", "/", "c", "a", "t">>, Hash_c, FALSE, NoneNum)>>,
     processes |-> <<>>,
     root_certs |-> <<RootCertInfo(<<"/", "e", "t", "c", "/", "s", "s", "l", "/", "a">>, Fp_1, NoneNum),
                      RootCertInfo(<<"/", "e", "t", "c", "/", "s", "s", "l", "/", "b">>, Fp_2, NoneNum)>>,
     summary |-> [total_binaries |-> 2, running_binaries |-> 0]]

\* the same lists in another order
S_permuted ==
    [S_base EXCEPT !.binaries = Reverse(@), !.root_certs = Reverse(@)]

\* the same system scanned later: everything but the audited set differs
S_rescanned ==
    [S_base EXCEPT !.collected_at = 1771367459, !.system_uptime_secs = 3659,
                   !.cpu_count = 8,
                   !.binaries = <<BinaryInfo(<<"/", "b", "i", "n", "/", "l", "s">>, Hash_ab, TRUE, Some(90)),
                                  BinaryInfo(<<"/", "b", "i", "n", "/", "c", "a", "t">>, Hash_c, TRUE, Some(10))>>,
                   !.processes = <<[pid |-> 1, name |-> <<"l", "s">>]>>,
                   !.root_certs = <<RootCertInfo(<<"/", "e", "t", "c", "/", "s", "s", "l", "/", "a">>, Fp_1, Some(50)),
                                    RootCertInfo(<<"/", "e", "t", "c", "/", "s", "s", "l", "/", "b">>, Fp_2, Some(50))>>,
                   !.summary = [total_binaries |-> 2, running_binaries |-> 2]]

\* two other hash values whose concatenation reads the same
S_shifted ==
    [S_base EXCEPT !.binaries = <<BinaryInfo(<<"/", "b", "i", "n", "/", "l", "s">>, <<"a">>, FALSE, NoneNum),
                                  BinaryInfo(<<"/", "b", "i", "n", "/", "c", "a", "t">>, <<"b", "c">>, FALSE, NoneNum)>>]

S_bin_removed == [S_base EXCEPT !.binaries = SubSeq(@, 1, 1)]

S_bin_changed ==
    [S_base EXCEPT !.binaries[2] = BinaryInfo(<<"/", "b", "i", "n", "/", "c", "a", "t">>, Hash_real, FALSE, NoneNum)]

S_cert_removed == [S_base EXCEPT !.root_certs = SubSeq(@, 1, 1)]

S_cert_repeated ==
    [S_base EXCEPT !.root_certs = Append(@, RootCertInfo(<<"/", "e", "t", "c", "/", "s", "s", "l", "/", "c">>, Fp_2, NoneNum))]

S_other_node == [S_base EXCEPT !.node_id = <<"n", "2">>]

AuSnapshots ==
    {S_base, S_permuted, S_rescanned, S_shifted, S_bin_removed, S_bin_changed,
     S_cert_removed, S_cert_repeated, S_other_node}

\* Utc::now().timestamp() when build_signal_txt reads it
AuEpochs == {1771367400, 1771367459}

AuInit ==
    /\ au_snapshot \in AuSnapshots
    /\ au_scans = <<>>
    /\ au_token = None

\* collect_snapshot(): the host's state decides the result.
AuCollect ==
    /\ au_token = None
    /\ Len(au_scans) < MaxScans
    /\ au_snapshot' \in AuSnapshots
    /\ UNCHANGED <<au_scans, au_token>>
    /\ UNCHANGED au_others

\* compute_trust_digest(&snapshot)
AuDigest ==
    /\ au_token = None
    /\ Len(au_scans) < MaxScans
    /\ au_scans' = Append(au_scans, [snapshot |-> au_snapshot,
                                     digest |-> compute_trust_digest(au_snapshot)])
    /\ UNCHANGED <<au_snapshot, au_token>>
    /\ UNCHANGED au_others

\* generate_verify_token(&snapshot); the second reading of the clock is the
\* same second or the next one.
AuToken ==
    /\ au_token = None
    /\ au_scans = <<>>
    /\ \E now_txt \in AuEpochs : \E now_token \in {now_txt, now_txt + 1} :
           au_token' = Some(generate_verify_token(au_snapshot, now_txt, now_token))
    /\ UNCHANGED <<au_snapshot, au_scans>>
    /\ UNCHANGED au_others

AuIdle ==
    /\ au_snapshot = S_base
    /\ au_scans = <<>>
    /\ au_token = None

AuNext == AuCollect \/ AuDigest \/ AuToken

\* The multiset of the values of a list, as the count of each value.
Multiset(values) ==
    [v \in {values[i] : i \in 1..Len(values)} |->
        Cardinality({i \in 1..Len(values) : values[i] = v})]

BinaryHashes(snapshot) ==
    [i \in 1..Len(snapshot.binaries) |-> snapshot.binaries[i].sha256]

CertFingerprints(snapshot) ==
    [i \in 1..Len(snapshot.root_certs) |-> snapshot.root_certs[i].fingerprint]

SameAuditedSet(a, b) ==
    /\ a.node_id = b.node_id
    /\ Multiset(BinaryHashes(a)) = Multiset(BinaryHashes(b))
    /\ Multiset(CertFingerprints(a)) = Multiset(CertFingerprints(b))

\* C12: two snapshots with the same node_id, the same multiset of binary
\* sha256 values and the same multiset of certificate fingerprints have the
\* same trust digest, whatever the order of their lists and whatever their
\* other fields are.
C12_DigestStable ==
    \A i, j \in 1..Len(au_scans) :
        SameAuditedSet(au_scans[i].snapshot, au_scans[j].snapshot)
            => au_scans[i].digest = au_scans[j].digest

C12_Witness ==
    /\ Len(au_scans) = 2
    /\ au_scans[1].snapshot = S_permuted
    /\ au_scans[2].snapshot = S_rescanned
    /\ au_scans[1].digest = au_scans[2].digest

AuReadings == AuEpochs \cup {now + 1 : now \in AuEpochs}

\* The token's fields for a digest, a time in the TXT value and a time in the URL.
TokenAsDocumented(token, snapshot, digest, ts_txt, ts_url) ==
    /\ token.digest = digest
    /\ token.node_prefix = SubSeq(digest, 1, 12)
    /\ Len(token.node_prefix) = 12
    /\ token.dns_name = token.node_prefix \o <<".">> \o <<"s", "i", "g", ".", "i", "1", ".", "i", "s", ".">>
    /\ token.expected_ttl = 60
    /\ token.expected_value =
           <<"d", "i", "g", "e", "s", "t", "=">> \o digest \o <<";", "t", "s", "=">> \o FormatDec(ts_txt)
               \o <<";", "b", "i", "n", "s", "=">> \o FormatDec(Len(snapshot.binaries))
               \o <<";", "c", "e", "r", "t", "s", "=">> \o FormatDec(Len(snapshot.root_certs))
    /\ VerifyToken_verification_url(token) =
           <<"h", "t", "t", "p", "s", ":", "/", "/", "i", "1", ".", "i", "s", "/", "v", "e", "r", "i", "f", "y", "?", "n", "=">> \o token.node_prefix \o <<"&", "d", "=">> \o digest
               \o <<"&", "t", "t", "l", "=", "6", "0", "&", "t", "s", "=">> \o FormatDec(ts_url)

\* C15: the token generated for a snapshot carries the digest of the
\* snapshot, its first 12 characters as node_prefix, node_prefix.sig.i1.is.
\* as dns_name, 60 as expected_ttl, digest=<digest>;ts=<epoch>;bins=<n>;certs=<m>
\* as expected_value, and its URL carries that prefix, that digest, ttl=60
\* and that same epoch as ts.
C15_TokenFields ==
    au_token.some =>
        LET holds(digest) ==
                \E ts \in AuReadings :
                    TokenAsDocumented(au_token.val, au_snapshot, digest, ts, ts)
        IN  holds(compute_trust_digest(au_snapshot))

\* The bytes as the documentation lists them: each of the five parts closed
\* by a '|'.
DocumentedMaterial(snapshot) ==
    snapshot.node_id \o <<"|">>
        \o FormatDec(Len(snapshot.binaries)) \o <<"|">>
        \o Concat(sort_unstable(BinaryHashes(snapshot))) \o <<"|">>
        \o FormatDec(Len(snapshot.root_certs)) \o <<"|">>
        \o Concat(sort_unstable(CertFingerprints(snapshot))) \o <<"|">>

\* C26: the bytes compute_trust_digest hashes are node_id, '|', the count of
\* binaries, '|', the sorted binary hashes, '|', the count of certificates,
\* '|', the sorted fingerprints and a closing '|'.
C26_MaterialLayout ==
    \A i \in 1..Len(au_scans) :
        /\ trust_material(au_scans[i].snapshot) = DocumentedMaterial(au_scans[i].snapshot)
        /\ au_scans[i].digest = compute_trust_digest(au_scans[i].snapshot)

\* C27: the ts of the token's expected_value is the token's generated_at,
\* the ts of its verification URL, whatever the clock does between the
\* steps of generate_verify_token.
C27_TokenTime ==
    au_token.some =>
        LET token == au_token.val
            ts == <<"t", "s", "=">> \o FormatDec(token.generated_at)
        IN  /\ \E part \in {Split(token.expected_value, ";")[i] :
                               i \in 1..Len(Split(token.expected_value, ";"))} :
                   part = ts
            /\ EndsWith(VerifyToken_verification_url(token), <<"&">> \o ts)

(***************************************************************************)
(* The verdict on bounded observations                                      *)
(***************************************************************************)
Txt_expected == <<"d", "i", "g", "e", "s", "t", "=", "a", "b", "c", ";", "t", "s", "=", "1", ";", "b", "i", "n", "s", "=", "0", ";", "c", "e", "r", "t", "s", "=", "0">>
Txt_other_digest == <<"d", "i", "g", "e", "s", "t", "=", "a", "b", "d", ";", "t", "s", "=", "1", ";", "b", "i", "n", "s", "=", "0", ";", "c", "e", "r", "t", "s", "=", "0">>
Txt_other_count == <<"d", "i", "g", "e", "s", "t", "=", "a", "b", "c", ";", "t", "s", "=", "1", ";", "b", "i", "n", "s", "=", "1", ";", "c", "e", "r", "t", "s", "=", "0">>

VfExpected ==
    {[value |-> v, ttl |-> ttl] : v \in {Txt_expected, Txt_other_digest},
                                  ttl \in {VERIFY_SIGNAL_TTL, 5}}

VfObservedValues == {Txt_expected, Txt_other_digest, Txt_other_count, <<>>}

VfObservedTtls == {0, 5, 15, 16, 20, 49, 50, 58, 60, 62, 70, 71, 86400, 2147483647}

VfInit ==
    /\ vf_expected \in VfExpected
    /\ vf_result = None

\* The record is looked up and is absent (NXDOMAIN).
VfObserveAbsent ==
    /\ vf_result' = Some(verify(vf_expected.value, vf_expected.ttl, None, NoneNum))
    /\ UNCHANGED vf_expected
    /\ UNCHANGED vf_others

\* The record is looked up and a TXT value with a TTL is observed.
VfObserve ==
    /\ \E value \in VfObservedValues : \E ttl \in VfObservedTtls :
           vf_result' = Some(verify(vf_expected.value, vf_expected.ttl,
                                    Some(value), Some(ttl)))
    /\ UNCHANGED vf_expected
    /\ UNCHANGED vf_others

VfIdle ==
    /\ vf_expected = [value |-> Txt_expected, ttl |-> VERIFY_SIGNAL_TTL]
    /\ vf_result = None

VfNext == VfObserveAbsent \/ VfObserve

Verdicts == {"Ok", "NotPublished", "Tampered", "StaleCache", "Compromised"}

MemberShapes == {"missing", "strings", "other"}

LdItems(f) ==
    CASE f = "blocked_ips" -> <<<<"1", ".", "2", ".", "3", ".", "4">>, <<"1", "0", ".", "0", ".", "0", ".", "0", "/", "2", "4">>>>
      [] f = "blocked_countries" -> <<C_ru>>
      [] f = "blocked_countries_outbound" -> <<C_kz, C_ru>>
      [] f = "blocked_asns" -> <<<<"A", "S", "1", "2", "3", "4", "5">>>>
      [] f = "whitelisted_ips" -> <<>>
      [] OTHER -> <<>>

\* The JSON object with the members a shape assignment lists.
LdObject(shapes, unknown) ==
    [exists |-> TRUE, readable |-> TRUE,
     json |-> [well_formed |-> TRUE,
               members |->
                   [f \in {g \in StateFileFields : shapes[g] # "missing"}
                            \cup (IF unknown THEN {"version"} ELSE {}) |->
                       IF f \in StateFileFields /\ shapes[f] = "strings"
                       THEN StringArray(LdItems(f))
                       ELSE [strings |-> FALSE, items |-> <<>>]]]]

FileUnreadable == [exists |-> TRUE, readable |-> FALSE,
                   json |-> [well_formed |-> FALSE, members |-> EmptyMap]]

LdFiles ==
    {FileAbsent, FileUnreadable, FileTruncated}
        \cup {LdObject(shapes, unknown) :
                  shapes \in [StateFileFields -> MemberShapes], unknown \in BOOLEAN}

LdInit ==
    /\ ld_file \in LdFiles
    /\ ld_out = NotRun

\* load_snapshot(path)
LdLoad ==
    /\ ld_out = NotRun
    /\ ld_out' = load_snapshot(ld_file)
    /\ UNCHANGED ld_file
    /\ UNCHANGED ld_others

LdIdle ==
    /\ ld_file = FileAbsent
    /\ ld_out = NotRun

LdNext == LdLoad

\* JSON of the documented shape: an object whose members of the five names
\* are arrays of strings.
StateFileShaped(file) ==
    /\ file.readable
    /\ file.json.well_formed
    /\ \A f \in DOMAIN file.json.members \cap StateFileFields :
           file.json.members[f].strings

Hash_24 == <<"a", "3", "f", "2", "b", "8", "c", "9", "1", "d", "4", "e", "5", "6", "7", "8", "9", "0", "a", "b", "c", "d", "e", "f">>
Hash_12 == <<"d", "4", "e", "5", "f", "6", "a", "7", "b", "8", "c", "9">>
Hash_11 == <<"d", "4", "e", "5", "f", "6", "a", "7", "b", "8", "c">>
Hash_3 == <<"a", "b", "c">>

CqHashes == {Hash_real, Hash_24, Hash_12, Hash_11, Hash_3}

\* TXT records as their character strings, with the node count and the
\* trust a reader of the nodes= and trust= fields finds in them.
CqVectors ==
    { [record |-> <<<<"n", "o", "d", "e", "s", "=", "5", ";", "t", "r", "u", "s", "t", "=", "8", "0">>>>, nodes |-> 5, trust |-> Some(80)],
      [record |-> <<<<"h", "a", "s", "h", "=", "a", "3", "f", "2", "b", "8", "c", "9", "1", "d", "4", "e", ";", "n", "o", "d", "e", "s", "=", "1", "2", ";", " ", "t", "r", "u", "s", "t", "=", "1", "0", "0", " ">>>>, nodes |-> 12,
       trust |-> Some(100)],
      [record |-> <<<<"n", "o", "d", "e", "s", "=", "5", ";">>, <<"t", "r", "u", "s", "t", "=", "8", "0", ";", "v", "=", "1">>>>, nodes |-> 5, trust |-> Some(80)],
      [record |-> <<<<"n", "o", "d", "e", "s", "=", "+", "7", ";", "t", "r", "u", "s", "t", "=", "0", "8", "0">>>>, nodes |-> 7, trust |-> Some(80)],
      [record |-> <<<<"n", "o", "d", "e", "s", "=", "0", ";", "t", "r", "u", "s", "t", "=", "0">>>>, nodes |-> 0, trust |-> Some(0)],
      [record |-> <<<<"n", "o", "d", "e", "s", "=", "2", "1", "4", "7", "4", "8", "3", "6", "4", "7">>>>, nodes |-> 2147483647, trust |-> NoneNum],
      [record |-> <<<<"t", "r", "u", "s", "t", "=", "8", "0">>>>, nodes |-> 0, trust |-> Some(80)],
      [record |-> <<<<"n", "o", "d", "e", "s", "=", "m", "a", "n", "y", ";", "t", "r", "u", "s", "t", "=", "8", "0">>>>, nodes |-> 0, trust |-> Some(80)],
      [record |-> <<<<"n", "o", "d", "e", "s", "=", "4", "2", "9", "4", "9", "6", "7", "2", "9", "6", ";", "t", "r", "u", "s", "t", "=", "-", "1">>>>, nodes |-> 0, trust |-> NoneNum],
      [record |-> <<<<"n", "o", "d", "e", "s", "=", "5", ";", "t", "r", "u", "s", "t", "=", "h", "i", "g", "h">>>>, nodes |-> 5, trust |-> NoneNum],
      [record |-> <<<<"n", "o", "d", "e", "s", "=", ";", "t", "r", "u", "s", "t", "=">>>>, nodes |-> 0, trust |-> NoneNum],
      [record |-> <<<<"N", "O", "D", "E", "S", "=", "5", ";", "x", "t", "r", "u", "s", "t", "=", "8", "0">>>>, nodes |-> 0, trust |-> NoneNum],
      [record |-> <<<<>>>>, nodes |-> 0, trust |-> NoneNum] }

CqErrors == {"NXDOMAIN", "SERVFAIL", "NoRecordsFound", "Timeout", "Proto"}

CqLookups ==
    {Err(e) : e \in CqErrors}
        \cup {Ok(<<>>)}
        \cup {Ok(<<v.record>>) : v \in CqVectors}
        \cup {Ok(<<<<<<"n", "o", "d", "e", "s", "=", "5", ";", "t", "r", "u", "s", "t", "=", "8", "0">>>>, <<<<"n", "o", "d", "e", "s", "=", "9", ";", "t", "r", "u", "s", "t", "=", "1", "0">>>>>>)}

CqInit ==
    /\ cq_kind \in {"binary", "cert"}
    /\ cq_hash \in CqHashes
    /\ cq_lookup \in CqLookups
    /\ cq_name = <<>>
    /\ cq_out = NotRun

\* query_binary_consensus(resolver, sha256)
CqQueryBinary ==
    /\ cq_kind = "binary"
    /\ cq_out = NotRun
    /\ cq_name' = binary_dns_name(cq_hash)
    /\ cq_out' = query_txt_record(cq_lookup, cq_hash)
    /\ UNCHANGED <<cq_kind, cq_hash, cq_lookup>>
    /\ UNCHANGED cq_others

\* query_cert_consensus(resolver, fingerprint)
CqQueryCert ==
    /\ cq_kind = "cert"
    /\ cq_out = NotRun
    /\ cq_name' = cert_dns_name(cq_hash)
    /\ cq_out' = query_txt_record(cq_lookup, cq_hash)
    /\ UNCHANGED <<cq_kind, cq_hash, cq_lookup>>
    /\ UNCHANGED cq_others

CqIdle ==
    /\ cq_kind = "binary"
    /\ cq_hash = Hash_24
    /\ cq_lookup = Err("NXDOMAIN")
    /\ cq_name = <<>>
    /\ cq_out = NotRun

CqNext == CqQueryBinary \/ CqQueryCert

C18_LabelIsTwelve ==
    cq_out # NotRun =>
        IF Len(cq_hash) >= 12
        THEN /\ cq_name = SubSeq(cq_hash, 1, 12)
                              \o (IF cq_kind = "binary" THEN <<".", "b", "i", "n", ".", "i", "1", ".", "i", "s", ".">>
                                  ELSE <<".", "c", "a", ".", "i", "1", ".", "i", "s", ".">>)
             /\ Len(Split(cq_name, ".")[1]) = 12
        ELSE ~cq_out.ok /\ cq_name = <<>>

(***************************************************************************)
(* build_zones under zone configurations other than the default             *)
(***************************************************************************)
\* Zone origins as a configuration file can give them: the defaults, origins
\* written without the closing dot, and an origin that is no DNS name.
ZnConfigs ==
    { ZoneConfig_default,
      [ZoneConfig_default EXCEPT !.blocklist = <<"b", "l", ".", "i", "1", ".", "i", "s">>],
      [ZoneConfig_default EXCEPT !.geo = <<"g", "e", "o", ".", "e", "x", "a", "m", "p", "l", "e", ".", "o", "r", "g">>, !.asn = <<"a", "s", "n", ".", "e", "x", "a", "m", "p", "l", "e", ".", "o", "r", "g">>],
      [blocklist |-> <<"b", "l", ".", "i", "1", ".", "i", "s">>, reputation |-> <<"r", "e", "p", ".", "i", "1", ".", "i", "s">>, geo |-> <<"g", "e", "o", ".", "i", "1", ".", "i", "s">>,
       asn |-> <<"a", "s", "n", ".", "i", "1", ".", "i", "s">>, signal |-> <<"s", "i", "g", ".", "i", "1", ".", "i", "s">>],
      [ZoneConfig_default EXCEPT !.signal = <<"s", "i", "g", ".", ".", "i", "1", ".", "i", "s", ".">>] }

ZnSnapshots ==
    { [blocked_ips |-> ips, blocked_countries |-> inbound,
       blocked_countries_outbound |-> outbound, blocked_asns |-> asns,
       whitelisted_ips |-> <<>>] :
        ips \in {<<>>, <<<<"1", ".", "2", ".", "3", ".", "4">>>>}, inbound \in {<<>>, <<C_cn>>},
        outbound \in {<<>>, <<C_kz>>}, asns \in {<<>>, <<<<"A", "S", "1", "2", "3", "4", "5">>>>} }

ZnInit ==
    /\ zb_snapshot \in ZnSnapshots
    /\ zb_zones \in ZnConfigs
    /\ zb_serial = 2026110401
    /\ zb_now = T_morning
    /\ zb_built = NotRun

\* The names of the record sets of the five zones built.
BuiltNames(built) ==
    UNION { {rs.name : rs \in zone.rrsets} :
                zone \in {built.blocklist, built.reputation, built.geo,
                          built.asn, built.signal} }

EndsWithDot(text) == text # <<>> /\ text[Len(text)] = "."

\* C19: for every zone configuration build_zones accepts, every name of the
\* zones built is fully qualified (written with a closing dot), and so are
\* the query name of each blocked address and the name of the signal record.
C19_TrailingDot ==
    (zb_built # NotRun /\ zb_built.ok) =>
        /\ \A name \in BuiltNames(zb_built.val) : name.fqdn
        /\ EndsWithDot(SignalData_query_name(zb_zones.signal))
        /\ \A i \in 1..Len(zb_snapshot.blocked_ips) :
               LET name == build_query_name(zb_snapshot.blocked_ips[i], zb_zones.blocklist)
               IN  name.ok => EndsWithDot(name.val)

(***************************************************************************)
(* insert_dnsbl_record for every code                                       *)
(***************************************************************************)
MaxInserts == 2

RcIps == {<<1, 2, 3, 4>>, <<10, 0, 0, 1>>, <<255, 255, 255, 255>>}

RcInit ==
    /\ rc_authority = create_zone(Name_parse(ZoneBl).val, 2026110401).val
    /\ rc_inserts = <<>>

\* insert_dnsbl_record(&mut authority, &ip, code, zone_origin, serial)
RcInsert ==
    /\ Len(rc_inserts) < MaxInserts
    /\ \E ip \in RcIps : \E code \in DnsblCodes :
           LET done(result) ==
                   /\ result.ok
                   /\ rc_authority' = result.val
                   /\ rc_inserts' = Append(rc_inserts, [ip |-> ip, code |-> code])
           IN  done(insert_dnsbl_record(rc_authority, ip, code, ZoneBl, 2026110401))
    /\ UNCHANGED rc_others

RcIdle ==
    /\ rc_authority = InMemoryAuthority_empty(Name_parse(ZoneBl).val)
    /\ rc_inserts = <<>>

RcNext == RcInsert

\* The low octet the documentation gives each code.
DocumentedOctet ==
    [code \in DnsblCodes |->
        CASE code = "Listed" -> 1
          [] code = "Malicious" -> 2
          [] code = "Suspicious" -> 3
          [] code = "WebScanner" -> 4
          [] code = "BruteForce" -> 5
          [] code = "Community" -> 10]

\* The addresses of the A records the zone holds for an address.
AddressesAt(zone, ip) ==
    LET records == RecordsAt(zone, Name_parse(reverse_ipv4(ip) \o <<".", "b", "l", ".", "i", "1", ".", "i", "s", ".">>).val, "A")
    IN  {records[i].rdata : i \in 1..Len(records)}

\* C20: each code has the address 127.0.0.n of the documentation, no two
\* codes share an address, and after insert_dnsbl_record for an address and
\* a code the zone holds an A record with the address of that code at the
\* reversed name, and A records of inserted codes only.
C20_CodeAddresses ==
    /\ \A code \in DnsblCodes :
           DnsblCode_to_ipv4(code) = <<127, 0, 0, DocumentedOctet[code]>>
    /\ \A a, b \in DnsblCodes :
           DnsblCode_to_ipv4(a) = DnsblCode_to_ipv4(b) => a = b
    /\ \A ip \in RcIps :
           AddressesAt(rc_authority, ip) =
               { <<127, 0, 0, DocumentedOctet[rc_inserts[i].code]>> :
                     i \in {k \in 1..Len(rc_inserts) : rc_inserts[k].ip = ip} }

C20_Witness ==
    /\ Len(rc_inserts) = 2
    /\ rc_inserts[1] = [ip |-> <<1, 2, 3, 4>>, code |-> "Community"]
    /\ rc_inserts[2] = [ip |-> <<1, 2, 3, 4>>, code |-> "BruteForce"]
    /\ AddressesAt(rc_authority, <<1, 2, 3, 4>>) = {<<127, 0, 0, 10>>, <<127, 0, 0, 5>>}

(***************************************************************************)
(* The TTLs of the records inserted and of the zones built                  *)
(***************************************************************************)
TtlInit ==
    /\ RcInit
    /\ zb_snapshot \in ZnSnapshots
    /\ zb_zones = ZoneConfig_default
    /\ zb_serial = 2026110401
    /\ zb_now = T_morning
    /\ zb_built = NotRun

TtlNext == RcInsert \/ ZbBuild

\* The TTLs of the records of a type a zone holds.
RecordTtls(zone, rtype) ==
    UNION { {rs.records[i].ttl : i \in 1..Len(rs.records)} :
                rs \in {r \in zone.rrsets : r.rtype = rtype} }

\* The records of a type a zone holds.
RecordsOf(zone, rtype) ==
    UNION { {rs.records[i] : i \in 1..Len(rs.records)} :
                rs \in {r \in zone.rrsets : r.rtype = rtype} }

\* C21: the TTLs are ordered, confirmed 86400 >= community 43200 >=
\* suspicious 3600 > signal 30, and the SOA minimum is 300, at most 600; an
\* A record of the blocklist has 3600 for the code Suspicious (127.0.0.3),
\* 43200 for Community (127.0.0.10) and 86400 for every other code; the
\* reputation TXT records have 7200, the geo and ASN records 86400 and the
\* signal record 30.
C21_TtlPolicy ==
    /\ ttl_for_threat_class("Confirmed") = 86400
    /\ ttl_for_threat_class("Community") = 43200
    /\ ttl_for_threat_class("Suspicious") = 3600
    /\ SIGNAL_TTL = 30
    /\ ttl_for_threat_class("Confirmed") >= ttl_for_threat_class("Community")
    /\ ttl_for_threat_class("Community") >= ttl_for_threat_class("Suspicious")
    /\ ttl_for_threat_class("Suspicious") > SIGNAL_TTL
    /\ SOA_MINIMUM_TTL = 300 /\ SOA_MINIMUM_TTL <= 600
    /\ \A record \in RecordsOf(rc_authority, "A") :
           record.ttl = CASE record.rdata = <<127, 0, 0, 3>> -> 3600
                          [] record.rdata = <<127, 0, 0, 10>> -> 43200
                          [] OTHER -> 86400
    /\ (zb_built # NotRun /\ zb_built.ok) =>
           /\ RecordTtls(zb_built.val.blocklist, "A") \subseteq {86400}
           /\ RecordTtls(zb_built.val.reputation, "TXT") \subseteq {7200}
           /\ RecordTtls(zb_built.val.geo, "TXT") \subseteq {86400}
           /\ RecordTtls(zb_built.val.asn, "TXT") \subseteq {86400}
           /\ RecordTtls(zb_built.val.signal, "TXT") = {30}

C21_Witness ==
    /\ Len(rc_inserts) = 2
    /\ rc_inserts[1].code = "Suspicious"
    /\ rc_inserts[2].code = "Community"
    /\ {r.ttl : r \in RecordsOf(rc_authority, "A")} = {3600, 43200}
    /\ zb_built # NotRun
    /\ zb_built.ok
    /\ RecordTtls(zb_built.val.blocklist, "A") = {86400}
    /\ RecordTtls(zb_built.val.reputation, "TXT") = {7200}
    /\ RecordTtls(zb_built.val.geo, "TXT") = {86400}
    /\ RecordTtls(zb_built.val.asn, "TXT") = {86400}

(***************************************************************************)
(* The blocked addresses of a snapshot and its whitelist                    *)
(***************************************************************************)
\* The IPv4 addresses of the entries below, each with its reversed text.
BkAddresses ==
    { [text |-> <<"1", ".", "2", ".", "3", ".", "4">>, reversed |-> <<"4", ".", "3", ".", "2", ".", "1">>],
      [text |-> <<"1", "0", ".", "0", ".", "0", ".", "1">>, reversed |-> <<"1", ".", "0", ".", "0", ".", "1", "0">>] }

BkIpTexts ==
    {row.text : row \in BkAddresses}
        \cup { <<"1", "0", ".", "0", ".", "0", ".", "0", "/", "2", "4">>, <<":", ":", "1">>, <<":", ":", "f", "f", "f", "f", ":", "1", ".", "2", ".", "3", ".", "4">>, <<"1", ".", "2", ".", "3">> }

BkWhitelists == { <<>>, <<<<"1", ".", "2", ".", "3", ".", "4">>>>, <<<<"1", "0", ".", "0", ".", "0", ".", "1">>, <<":", ":", "1">>>> }

BkInit ==
    /\ zb_snapshot \in
           { [DefenseSnapshot_default EXCEPT !.blocked_ips = ips,
                                             !.blocked_countries = inbound,
                                             !.whitelisted_ips = white] :
                 ips \in ListsUpTo(BkIpTexts, MaxIps),
                 inbound \in {<<>>, <<C_cn>>}, white \in BkWhitelists }
    /\ zb_zones = ZoneConfig_default
    /\ zb_serial = 2026110401
    /\ zb_now = T_morning
    /\ zb_built = NotRun

\* The addresses of BkAddresses that blocked_ips lists.
BkListed(snapshot) ==
    {row \in BkAddresses : SeqContains(snapshot.blocked_ips, row.text)}

C30_ZonesInStep ==
    zb_built # NotRun =>
        /\ zb_built.ok
        /\ \A row \in BkAddresses :
               LET a == RecordsAt(zb_built.val.blocklist,
                                  Name_parse(row.reversed \o <<".">> \o ZoneBl).val,
                                  "A")
                   txt == RecordsAt(zb_built.val.reputation,
                                    Name_parse(row.reversed \o <<".">> \o ZoneRep).val,
                                    "TXT")
               IN  /\ (a # <<>>) <=> (row \in BkListed(zb_snapshot))
                   /\ (txt # <<>>) <=> (a # <<>>)
                   /\ \A i \in 1..Len(txt) : txt[i].ttl = 7200
        /\ NamesWith(zb_built.val.blocklist, "A")
               = {Name_parse(row.reversed \o <<".">> \o ZoneBl).val :
                      row \in BkListed(zb_snapshot)}
        /\ NamesWith(zb_built.val.reputation, "TXT")
               = {Name_parse(row.reversed \o <<".">> \o ZoneRep).val :
                      row \in BkListed(zb_snapshot)}

C30_Witness ==
    /\ zb_built.ok
    /\ zb_snapshot.blocked_ips = <<<<":", ":", "1">>, <<"1", ".", "2", ".", "3", ".", "4">>>>
    /\ NamesWith(zb_built.val.blocklist, "A") = {Name_parse(<<"4", ".", "3", ".", "2", ".", "1", ".", "b", "l", ".", "i", "1", ".", "i", "s", ".">>).val}
    /\ NamesWith(zb_built.val.reputation, "TXT") = {Name_parse(<<"4", ".", "3", ".", "2", ".", "1", ".", "r", "e", "p", ".", "i", "1", ".", "i", "s", ".">>).val}
    /\ zb_built.val.entry_count = 1

(***************************************************************************)
(* TrustScore::compute and score_cert on bounded factors and weights        *)
(***************************************************************************)
\* Finite factor values: 0, 0.5, 1 and 10^200.
ScFactorVals == { F64_ZERO, Dec(5, -1), F64_ONE, Dec(1, 200) }

\* The presets, weights of 10^200 and -10^200, and a NaN weight.
ScWeights ==
    { TrustWeights_default, offline_weights, paranoid_weights,
      TrustWeights(Dec(1, 200), Dec(-1, 200), F64_ZERO, F64_ZERO, F64_ZERO),
      [TrustWeights_default EXCEPT !.provenance_score = F64_NAN] }

ScCerts ==
    { [expired |-> expired, issuer |-> issuer] :
          expired \in BOOLEAN,
          issuer \in { <<"C", "N", "=", "D", "i", "g", "i", "C", "e", "r", "t", " ", "G", "l", "o", "b", "a", "l", " ", "R", "o", "o", "t", " ", "G", "2">>, <<"C", "N", "=", "T", "o", "t", "a", "l", "l", "y", " ", "L", "e", "g", "i", "t", " ", "R", "o", "o", "t", " ", "C", "A">> } }

ScInit ==
    /\ sc_factors \in [1..5 -> ScFactorVals]
    /\ sc_weights \in ScWeights
    /\ sc_score = NotRun
    /\ sc_cert = NotRun

\* A caller computes the score of the factors under the weights.
ScCompute ==
    /\ sc_score = NotRun
    /\ sc_score' = Ok(TrustScore_compute(sc_factors[1], sc_factors[2],
                                         sc_factors[3], sc_factors[4],
                                         sc_factors[5], sc_weights))
    /\ UNCHANGED <<sc_factors, sc_weights, sc_cert>>
    /\ UNCHANGED sc_others

\* A caller scores a certificate.
ScScoreCert ==
    /\ sc_cert = NotRun
    /\ \E cert \in ScCerts :
           sc_cert' = Ok([cert |-> cert, trust |-> score_cert(cert)])
    /\ UNCHANGED <<sc_factors, sc_weights, sc_score>>
    /\ UNCHANGED sc_others

ScIdle ==
    /\ sc_factors = [i \in 1..5 |-> F64_ZERO]
    /\ sc_weights = TrustWeights_default
    /\ sc_score = NotRun
    /\ sc_cert = NotRun

ScNext == ScCompute \/ ScScoreCert

\* 0 <= x <= 1
InUnitRange(x) == F64Le(F64_ZERO, x) /\ F64Le(x, F64_ONE)

\* C22: for finite factor values and any weights the total of
\* TrustScore::compute is in [0, 1] and the five factor values are in the
\* result as they were given; the score of score_cert is in [0, 1].
C22_ScoreInRange ==
    /\ (sc_score # NotRun /\ \A i \in 1..5 : is_finite(sc_factors[i])) =>
           /\ InUnitRange(sc_score.val.total)
           /\ sc_score.val.hash_consensus = sc_factors[1]
           /\ sc_score.val.age_factor = sc_factors[2]
           /\ sc_score.val.identity_stability = sc_factors[3]
           /\ sc_score.val.usage_normality = sc_factors[4]
           /\ sc_score.val.provenance_score = sc_factors[5]
    /\ sc_cert # NotRun => InUnitRange(sc_cert.val.trust.score)

(***************************************************************************)
(* collect_snapshot on bounded systems                                      *)
(***************************************************************************)
\* 2026-02-17T22:30:00Z, the reading of the clock during the scan.
CsNow == 1771367400

\* A ProcessInfo; pid, cmdline, uid and usage are not read by the scan.
ProcessInfo(name, exe_path) == [name |-> name, exe_path |-> exe_path]

\* A binary as collect_binary_info returns it, created age_days and one
\* hour before the scan.
Discovered(path, age_days) ==
    [path |-> path, sha256 |-> Hash_ab,
     create_date |-> CsNow - (age_days * 86400) - 3600,
     running |-> FALSE, process_names |-> <<>>, trust_score |-> None]

Path_sshd == <<"/", "u", "s", "r", "/", "s", "b", "i", "n", "/", "s", "s", "h", "d">>
Path_ls == <<"/", "b", "i", "n", "/", "l", "s">>
Path_miner == <<"/", "o", "p", "t", "/", "m", "i", "n", "e", "r">>

CsProcesses ==
    { ProcessInfo(<<"s", "s", "h", "d">>, Some(Path_sshd)),
      ProcessInfo(<<"s", "s", "h", "d", "-", "s", "e", "s", "s", "i", "o", "n">>, Some(Path_sshd)),
      ProcessInfo(<<"m", "i", "n", "e", "r">>, Some(Path_miner)),
      ProcessInfo(<<"k", "w", "o", "r", "k", "e", "r">>, None) }

CsBinaries ==
    { Discovered(Path_sshd, 365), Discovered(Path_ls, 30),
      Discovered(Path_miner, 0), Discovered(Path_miner, 365) }

CsCerts ==
    { [fingerprint |-> Fp_1, issuer |-> <<"C", "N", "=", "D", "i", "g", "i", "C", "e", "r", "t", " ", "G", "l", "o", "b", "a", "l", " ", "R", "o", "o", "t", " ", "G", "2">>,
       expired |-> FALSE, in_consensus |-> NoneBool, trust_score |-> None],
      [fingerprint |-> Fp_2, issuer |-> <<"C", "N", "=", "T", "o", "t", "a", "l", "l", "y", " ", "L", "e", "g", "i", "t", " ", "R", "o", "o", "t", " ", "C", "A">>,
       expired |-> TRUE, in_consensus |-> NoneBool, trust_score |-> None] }

MaxFound == 2

CsInit ==
    /\ cs_found \in
           [processes : ListsUpTo(CsProcesses, MaxFound),
            binaries : ListsUpTo(CsBinaries, MaxFound),
            root_certs : ListsUpTo(CsCerts, 1),
            owned : {{}, {Path_sshd, Path_ls}}]
    /\ cs_weights \in {TrustWeights_default, offline_weights}
    /\ cs_pc = "start"
    /\ cs_processes = <<>>
    /\ cs_binaries = <<>>
    /\ cs_root_certs = <<>>
    /\ cs_out = NotRun

\* Phase 1: the three discoveries succeed.
CsDiscover ==
    /\ cs_pc = "start"
    /\ cs_processes' = cs_found.processes
    /\ cs_binaries' = cs_found.binaries
    /\ cs_root_certs' = cs_found.root_certs
    /\ cs_pc' = "discovered"
    /\ UNCHANGED <<cs_found, cs_weights, cs_out>>
    /\ UNCHANGED cs_others

\* Phase 1: a discovery fails and collect_snapshot returns its error.
CsDiscoverFails ==
    /\ cs_pc = "start"
    /\ cs_out' = Err("Discovery")
    /\ cs_pc' = "done"
    /\ UNCHANGED <<cs_found, cs_weights, cs_processes, cs_binaries, cs_root_certs>>
    /\ UNCHANGED cs_others

CsCorrelate ==
    /\ cs_pc = "discovered"
    /\ cs_binaries' = correlate_processes(cs_binaries, cs_processes)
    /\ cs_pc' = "correlated"
    /\ UNCHANGED <<cs_found, cs_weights, cs_processes, cs_root_certs, cs_out>>
    /\ UNCHANGED cs_others

\* Phase 2: the two scoring loops.
CsScore ==
    /\ cs_pc = "correlated"
    /\ cs_binaries' =
           [i \in 1..Len(cs_binaries) |->
               [cs_binaries[i] EXCEPT
                   !.trust_score = Some(score_binary(cs_binaries[i], cs_weights,
                                                     CsNow, cs_found.owned))]]
    /\ cs_root_certs' =
           [i \in 1..Len(cs_root_certs) |->
               [cs_root_certs[i] EXCEPT
                   !.trust_score = Some(score_cert(cs_root_certs[i]))]]
    /\ cs_pc' = "scored"
    /\ UNCHANGED <<cs_found, cs_weights, cs_processes, cs_out>>
    /\ UNCHANGED cs_others

\* The summary and the snapshot returned.
CsSummarise ==
    /\ cs_pc = "scored"
    /\ cs_out' = Ok([node_id |-> <<"n", "1">>, collected_at |-> CsNow,
                     binaries |-> cs_binaries, processes |-> cs_processes,
                     root_certs |-> cs_root_certs,
                     summary |-> AuditSummary_from_snapshot(
                                     cs_binaries, cs_processes, cs_root_certs,
                                     Dec(5, -1))])
    /\ cs_pc' = "done"
    /\ UNCHANGED <<cs_found, cs_weights, cs_processes, cs_binaries, cs_root_certs>>
    /\ UNCHANGED cs_others

CsIdle ==
    /\ cs_found = [processes |-> <<>>, binaries |-> <<>>, root_certs |-> <<>>,
                   owned |-> {}]
    /\ cs_weights = TrustWeights_default
    /\ cs_pc = "start"
    /\ cs_processes = <<>>
    /\ cs_binaries = <<>>
    /\ cs_root_certs = <<>>
    /\ cs_out = NotRun

CsNext == CsDiscover \/ CsDiscoverFails \/ CsCorrelate \/ CsScore \/ CsSummarise

\* The processes whose exe path is the path.
ProcessesOf(processes, path) ==
    {k \in 1..Len(processes) :
        processes[k].exe_path.some /\ processes[k].exe_path.val = path}

\* C23: after correlate_processes on freshly discovered binaries a binary is
\* running exactly when a process has its path as exe path, its
\* process_names are the names of those processes, each once, nothing else
\* of the binary changes, and the processes without an exe path change
\* nothing.
C23_Correlation ==
    cs_pc = "correlated" =>
        /\ Len(cs_binaries) = Len(cs_found.binaries)
        /\ \A i \in 1..Len(cs_binaries) :
               LET binary == cs_binaries[i]
                   of == ProcessesOf(cs_processes, binary.path)
                   names == {binary.process_names[k] :
                                 k \in 1..Len(binary.process_names)}
               IN  /\ binary.running <=> (of # {})
                   /\ names = {cs_processes[k].name : k \in of}
                   /\ Len(binary.process_names) = Cardinality(names)
                   /\ binary = [cs_found.binaries[i] EXCEPT
                                    !.running = binary.running,
                                    !.process_names = binary.process_names]
        /\ cs_binaries
               = correlate_processes(
                     cs_found.binaries,
                     SelectSeq(cs_processes, LAMBDA proc : proc.exe_path.some))

C23_Witness ==
    /\ cs_pc = "correlated"
    /\ cs_processes = <<ProcessInfo(<<"s", "s", "h", "d">>, Some(Path_sshd)),
                        ProcessInfo(<<"s", "s", "h", "d">>, Some(Path_sshd))>>
    /\ Len(cs_binaries) = 2
    /\ cs_binaries[1].path = Path_sshd
    /\ cs_binaries[1].running
    /\ cs_binaries[1].process_names = <<<<"s", "s", "h", "d">>>>
    /\ ~cs_binaries[2].running

\* The usage normality of the documentation: 1.0 and 0.8 for a running and
\* an idle binary of the system paths, 0.4 and 0.5 outside them.
DocumentedNormality(path, running) ==
    IF in_system_path(path)
    THEN (IF running THEN Dec(10, -1) ELSE Dec(8, -1))
    ELSE (IF running THEN Dec(4, -1) ELSE Dec(5, -1))

\* C24: within a scan discovery precedes correlation precedes scoring
\* precedes the summary: no binary runs before correlation, none has a
\* score before scoring, the usage_normality of every score is the one of
\* the running flag that correlation set, and running_binaries and
\* low_trust_binaries of the summary count the flags and the totals below
\* 0.5 of the binaries the snapshot returns.
C24_ScanOrder ==
    /\ cs_pc = "start" => cs_binaries = <<>> /\ cs_processes = <<>>
    /\ cs_pc \in {"start", "discovered"} =>
           \A i \in 1..Len(cs_binaries) : ~cs_binaries[i].running
    /\ cs_pc \in {"start", "discovered", "correlated"} =>
           \A i \in 1..Len(cs_binaries) : ~cs_binaries[i].trust_score.some
    /\ cs_pc # "done" => cs_out = NotRun
    /\ cs_pc \in {"scored", "done"} =>
           \A i \in 1..Len(cs_binaries) :
               LET binary == cs_binaries[i]
                   running == ProcessesOf(cs_processes, binary.path) # {}
               IN  /\ binary.running = running
                   /\ binary.trust_score.some
                   /\ binary.trust_score.val.usage_normality
                          = DocumentedNormality(binary.path, running)
    /\ (cs_pc = "done" /\ cs_out.ok) =>
           LET snapshot == cs_out.val
               binaries == snapshot.binaries
           IN  /\ binaries = cs_binaries
               /\ snapshot.summary.running_binaries
                      = Cardinality({i \in 1..Len(binaries) : binaries[i].running})
               /\ snapshot.summary.low_trust_binaries
                      = Cardinality({i \in 1..Len(binaries) :
                                        F64Lt(binaries[i].trust_score.val.total,
                                              Dec(5, -1))})
               /\ snapshot.summary.total_binaries = Len(binaries)

C24_Witness ==
    /\ cs_pc = "done"
    /\ cs_out.ok
    /\ Len(cs_out.val.binaries) = 2
    /\ cs_out.val.binaries[1].path = Path_miner
    /\ cs_out.val.binaries[1].running
    /\ cs_out.val.binaries[1].trust_score.val.usage_normality = Dec(4, -1)
    /\ cs_out.val.binaries[2].path = Path_sshd
    /\ ~cs_out.val.binaries[2].running
    /\ cs_out.val.summary.running_binaries = 1
    /\ cs_out.val.summary.low_trust_binaries = 1

(***************************************************************************)
(* compare_binaries and compare_certs on bounded scans                      *)
(***************************************************************************)
Path_binx == <<"/", "b", "i", "n", "x", "/", "m", "i", "n", "e", "r">>

\* A TrustScore whose hash_consensus the consensus queries have filled in.
Scored(hash_consensus) ==
    Some(TrustScore_compute(hash_consensus, Dec(5, -1), F64_ONE, Dec(8, -1),
                            F64_ONE, TrustWeights_default))

\* No score, and scores of consensus 0.005, 0.01, 0.2 and 0.3.
AnScores ==
    { None, Scored(Dec(5, -3)), Scored(Dec(1, -2)), Scored(Dec(2, -1)),
      Scored(Dec(3, -1)) }

AnBinaries ==
    { [path |-> path, running |-> running, trust_score |-> score] :
          path \in {Path_sshd, Path_ls, Path_miner, Path_binx},
          running \in BOOLEAN, score \in AnScores }

AnCerts ==
    { [subject |-> <<"C", "N", "=", "R", "o", "o", "t">>, expired |-> expired, in_consensus |-> asked] :
          expired \in BOOLEAN,
          asked \in {NoneBool, Some(TRUE), Some(FALSE)} }

AnInit ==
    /\ an_call \in
           ([fn : {"compare_binaries"}, items : ListsUpTo(AnBinaries, MaxFound)]
            \cup [fn : {"compare_certs"}, items : ListsUpTo(AnCerts, MaxFound)])
    /\ an_out = NotRun

AnCompareBinaries ==
    /\ an_out = NotRun
    /\ an_call.fn = "compare_binaries"
    /\ an_out' = Ok(compare_binaries(an_call.items, 1))
    /\ UNCHANGED an_call
    /\ UNCHANGED an_others

AnCompareCerts ==
    /\ an_out = NotRun
    /\ an_call.fn = "compare_certs"
    /\ an_out' = Ok(compare_certs(an_call.items))
    /\ UNCHANGED an_call
    /\ UNCHANGED an_others

AnIdle ==
    /\ an_call = [fn |-> "compare_certs", items |-> <<>>]
    /\ an_out = NotRun

AnNext == AnCompareBinaries \/ AnCompareCerts

\* The path is in one of the directories /usr, /bin and /sbin.
UnderSystemDirectory(path) ==
    \/ StartsWith(path, <<"/", "u", "s", "r", "/">>)
    \/ StartsWith(path, <<"/", "b", "i", "n", "/">>)
    \/ StartsWith(path, <<"/", "s", "b", "i", "n", "/">>)

\* The anomalies of the documentation for a scored binary.
DocumentedBinaryAnomalies(bin) ==
    LET h == bin.trust_score.val.hash_consensus
    IN  (IF F64Lt(h, Dec(1, -2))
         THEN <<[kind |-> "UnknownBinary",
                 severity |-> IF bin.running THEN "High" ELSE "Medium"]>>
         ELSE IF F64Le(Dec(1, -2), h) /\ F64Lt(h, Dec(3, -1))
         THEN <<[kind |-> "RareBinary", severity |-> "Low"]>>
         ELSE <<>>)
        \o (IF bin.running /\ ~UnderSystemDirectory(bin.path)
            THEN <<[kind |-> "SuspiciousLocation", severity |-> "Medium"]>>
            ELSE <<>>)

\* The anomalies of the documentation for a certificate.
DocumentedCertAnomalies(cert) ==
    (IF cert.expired
     THEN <<[kind |-> "ExpiredCert", severity |-> "Medium"]>> ELSE <<>>)
    \o (IF cert.in_consensus = Some(FALSE)
        THEN <<[kind |-> "UnknownCert", severity |-> "Critical"]>> ELSE <<>>)

\* Kind and severity of each anomaly.
KindsOf(anomalies) ==
    [i \in 1..Len(anomalies) |->
        [kind |-> anomalies[i].kind, severity |-> anomalies[i].severity]]

\* C25: the anomalies of scored binaries and of certificates are those of
\* the stated rules: one UnknownBinary below 0.01 (High if running, Medium
\* if not), one RareBinary (Low) from 0.01 to below 0.3 and no UnknownBinary
\* with it, a SuspiciousLocation (Medium) more for a running binary outside
\* /usr/, /bin and /sbin, an ExpiredCert (Medium) for an expired
\* certificate, an UnknownCert (Critical) for in_consensus Some(false) and
\* none for None and Some(true).
C25_AnomalyRules ==
    an_out # NotRun =>
        LET items == an_call.items
        IN  IF an_call.fn = "compare_binaries"
            THEN (\A i \in 1..Len(items) : items[i].trust_score.some) =>
                     KindsOf(an_out.val)
                         = Concat([i \in 1..Len(items) |->
                                      DocumentedBinaryAnomalies(items[i])])
            ELSE KindsOf(an_out.val)
                     = Concat([i \in 1..Len(items) |->
                                  DocumentedCertAnomalies(items[i])])

(***************************************************************************)
(* encode_binary_txt on bounded binaries                                    *)
(***************************************************************************)
\* The lengths of the file names: NAME_MAX is 255.
EbNameLengths == {4, 153, 154, 200, 255}

\* File sizes; a u64 has up to 20 digits, these have up to 10.
EbSizes == {0, 4096, 2147483647}

EbNodeCounts == {0, 7, 100000}

EbInit ==
    /\ eb_binary \in
           { [path |-> <<"/", "u", "s", "r", "/", "b", "i", "n", "/">> \o Repeat("a", n), sha256 |-> Hash_real,
              size |-> size, trust_score |-> score] :
                 n \in EbNameLengths, size \in EbSizes,
                 score \in {None, Scored(F64_ZERO), Scored(F64_ONE)} }
    /\ eb_nodes \in EbNodeCounts
    /\ eb_out = NotRun

EbEncode ==
    /\ eb_out = NotRun
    /\ eb_out' = encode_binary_txt(eb_binary, eb_nodes)
    /\ UNCHANGED <<eb_binary, eb_nodes>>
    /\ UNCHANGED eb_others

EbIdle ==
    /\ eb_binary = [path |-> <<>>, sha256 |-> <<>>, size |-> 0,
                    trust_score |-> None]
    /\ eb_nodes = 0
    /\ eb_out = NotRun

EbNext == EbEncode

\* C28: for a binary with a hash of 64 characters, whatever its path, size
\* and node count, the TXT value of encode_binary_txt has at most 255
\* bytes: the overflow form that replaces a plain form of more than 255
\* bytes is no longer than 255 bytes.
C28_TxtFitsOneString ==
    (eb_out # NotRun /\ Len(eb_binary.sha256) = 64) =>
        /\ eb_out.ok
        /\ Len(eb_out.val) <= 255

(***************************************************************************)
(* Specifications                                                          *)
(***************************************************************************)
InitDnsbl == DnInit /\ TxIdle /\ ZbIdle /\ SvIdle /\ SgIdle /\ AuIdle /\ VfIdle /\ LdIdle /\ CqIdle /\ RcIdle /\ ScIdle /\ CsIdle /\ AnIdle /\ EbIdle
SpecDnsbl == InitDnsbl /\ [][DnNext]_vars

InitTxt == TxInit /\ DnIdle /\ ZbIdle /\ SvIdle /\ SgIdle /\ AuIdle /\ VfIdle /\ LdIdle /\ CqIdle /\ RcIdle /\ ScIdle /\ CsIdle /\ AnIdle /\ EbIdle
SpecTxt == InitTxt /\ [][TxNext]_vars

InitZones == ZbInit /\ DnIdle /\ TxIdle /\ SvIdle /\ SgIdle /\ AuIdle /\ VfIdle /\ LdIdle /\ CqIdle /\ RcIdle /\ ScIdle /\ CsIdle /\ AnIdle /\ EbIdle
SpecZones == InitZones /\ [][ZbNext]_vars

\* The runtime beside the control tool that writes the state file.
InitServer == SvInit /\ DnIdle /\ TxIdle /\ ZbIdle /\ SgIdle /\ AuIdle /\ VfIdle /\ LdIdle /\ CqIdle /\ RcIdle /\ ScIdle /\ CsIdle /\ AnIdle /\ EbIdle
SpecServer == InitServer /\ [][SvNext]_vars

\* The runtime of a node whose state file nobody writes, over many reloads.
InitSerial == SvInitFresh /\ DnIdle /\ TxIdle /\ ZbIdle /\ SgIdle /\ AuIdle /\ VfIdle /\ LdIdle /\ CqIdle /\ RcIdle /\ ScIdle /\ CsIdle /\ AnIdle /\ EbIdle
SpecSerial == InitSerial /\ [][SvNextFresh]_vars

InitSignal == SgInit /\ DnIdle /\ TxIdle /\ ZbIdle /\ SvIdle /\ AuIdle /\ VfIdle /\ LdIdle /\ CqIdle /\ RcIdle /\ ScIdle /\ CsIdle /\ AnIdle /\ EbIdle
SpecSignal == InitSignal /\ [][SgNext]_vars

InitAudit == AuInit /\ DnIdle /\ TxIdle /\ ZbIdle /\ SvIdle /\ SgIdle /\ VfIdle /\ LdIdle /\ CqIdle /\ RcIdle /\ ScIdle /\ CsIdle /\ AnIdle /\ EbIdle
SpecAudit == InitAudit /\ [][AuNext]_vars

InitVerify == VfInit /\ DnIdle /\ TxIdle /\ ZbIdle /\ SvIdle /\ SgIdle /\ AuIdle /\ LdIdle /\ CqIdle /\ RcIdle /\ ScIdle /\ CsIdle /\ AnIdle /\ EbIdle
SpecVerify == InitVerify /\ [][VfNext]_vars

InitLoader == LdInit /\ DnIdle /\ TxIdle /\ ZbIdle /\ SvIdle /\ SgIdle /\ AuIdle /\ VfIdle /\ CqIdle /\ RcIdle /\ ScIdle /\ CsIdle /\ AnIdle /\ EbIdle
SpecLoader == InitLoader /\ [][LdNext]_vars

InitConsensus == CqInit /\ DnIdle /\ TxIdle /\ ZbIdle /\ SvIdle /\ SgIdle
    /\ AuIdle /\ VfIdle /\ LdIdle /\ RcIdle /\ ScIdle /\ CsIdle /\ AnIdle /\ EbIdle
SpecConsensus == InitConsensus /\ [][CqNext]_vars

InitZoneNames == ZnInit /\ DnIdle /\ TxIdle /\ SvIdle /\ SgIdle /\ AuIdle /\ VfIdle /\ LdIdle
    /\ CqIdle /\ RcIdle /\ ScIdle /\ CsIdle /\ AnIdle /\ EbIdle
SpecZoneNames == InitZoneNames /\ [][ZbNext]_vars

InitRecords == RcInit /\ DnIdle /\ TxIdle /\ ZbIdle /\ SvIdle /\ SgIdle /\ AuIdle /\ VfIdle
    /\ LdIdle /\ CqIdle /\ ScIdle /\ CsIdle /\ AnIdle /\ EbIdle
SpecRecords == InitRecords /\ [][RcNext]_vars

InitTtl == TtlInit /\ DnIdle /\ TxIdle /\ SvIdle /\ SgIdle /\ AuIdle /\ VfIdle /\ LdIdle
    /\ CqIdle /\ ScIdle /\ CsIdle /\ AnIdle /\ EbIdle
SpecTtl == InitTtl /\ [][TtlNext]_vars

InitBlocked == BkInit /\ DnIdle /\ TxIdle /\ SvIdle /\ SgIdle /\ AuIdle /\ VfIdle /\ LdIdle
    /\ CqIdle /\ RcIdle /\ ScIdle /\ CsIdle /\ AnIdle /\ EbIdle
SpecBlocked == InitBlocked /\ [][ZbNext]_vars

InitScore == ScInit /\ DnIdle /\ TxIdle /\ ZbIdle /\ SvIdle /\ SgIdle /\ AuIdle /\ VfIdle
    /\ LdIdle /\ CqIdle /\ RcIdle /\ CsIdle /\ AnIdle /\ EbIdle
SpecScore == InitScore /\ [][ScNext]_vars

InitScan == CsInit /\ DnIdle /\ TxIdle /\ ZbIdle /\ SvIdle /\ SgIdle /\ AuIdle /\ VfIdle
    /\ LdIdle /\ CqIdle /\ RcIdle /\ ScIdle /\ AnIdle /\ EbIdle
SpecScan == InitScan /\ [][CsNext]_vars

InitAnomalies == AnInit /\ DnIdle /\ TxIdle /\ ZbIdle /\ SvIdle /\ SgIdle /\ AuIdle
    /\ VfIdle /\ LdIdle /\ CqIdle /\ RcIdle /\ ScIdle /\ CsIdle /\ EbIdle
SpecAnomalies == InitAnomalies /\ [][AnNext]_vars

InitEncode == EbInit /\ DnIdle /\ TxIdle /\ ZbIdle /\ SvIdle /\ SgIdle /\ AuIdle /\ VfIdle
    /\ LdIdle /\ CqIdle /\ RcIdle /\ ScIdle /\ CsIdle /\ AnIdle
SpecEncode == InitEncode /\ [][EbNext]_vars

====
